---- MODULE Spec2Model ----
(***************************************************************************)
(* Model of the crypto price tracker's subscription layer:                 *)
(*   - TickerSubscriptionManager (reference-counted pages, one per ticker) *)
(*   - the unary Subscribe / Unsubscribe RPC handlers of the Connect router *)
(*   - the bidirectional streamPrices handler: its actions task, its queue  *)
(*     between the price listeners and the output stream, its teardown      *)
(* JavaScript runs one task at a time: every action below is the code that *)
(* runs between two awaits (or one collaborator event).                    *)
(* Strings are sequences of one-character strings so that trim() and       *)
(* toUpperCase() are computed, not assumed.                                *)
(***************************************************************************)
EXTENDS Integers, Sequences, FiniteSets, Bags, TLC

\* ------------------------------------------------------------------ bounds
\* Total number of manager.subscribe / manager.unsubscribe / manager.shutdown
\* invocations explored.
MaxCalls == 3

\* Total number of price updates the pages push.
MaxEmits == 1

\* Delivery alone (sessions that only subscribe, opens that succeed): total number
\* of SUBSCRIBE actions, total number of price updates the pages push.
MaxSubs == 2
MaxPushes == 3

\* With a watchPrices session: total number of manager calls the unary RPCs make.
MaxWatchCalls == 2

\* The emitter alone: number of onPrice calls, and of calls of one detach function.
MaxRegs == 3
MaxOffCalls == 2

\* ------------------------------------------------------------------ strings
Max(a, b) == IF a >= b THEN a ELSE b

IsSpace(c) == c = " "

ToUpperChar(c) ==
  CASE c = "b" -> "B"
    [] c = "e" -> "E"
    [] OTHER -> c

ToUpperCase(s) == [i \in 1..Len(s) |-> ToUpperChar(s[i])]

RECURSIVE TrimStart(_)
TrimStart(s) ==
  IF s # <<>> /\ IsSpace(Head(s)) THEN TrimStart(Tail(s)) ELSE s

RECURSIVE TrimEnd(_)
TrimEnd(s) ==
  IF s # <<>> /\ IsSpace(s[Len(s)]) THEN TrimEnd(SubSeq(s, 1, Len(s) - 1)) ELSE s

Trim(s) == TrimEnd(TrimStart(s))

\* tickerRaw.trim().toUpperCase()
Normalize(tickerRaw) == ToUpperCase(Trim(tickerRaw))

\* Raw ticker texts a client may send.
RawTickers == { <<"B">>, <<" ", "b">>, <<"E">>, <<" ">> }

\* req.tickers of the unary requests explored.
Requests == { << <<"B">> >>, << <<" ", "b">> >>, << <<" ">>, <<"E">> >> }

Tickers == { Normalize(r) : r \in RawTickers } \ { <<>> }

\* req.tickers.join(',')
RECURSIVE Join(_)
Join(ts) ==
  IF ts = <<>> THEN <<>>
  ELSE IF Len(ts) = 1 THEN ts[1]
  ELSE ts[1] \o <<",">> \o Join(Tail(ts))

\* ------------------------------------------------------------------ Map
EmptyMap == [x \in {} |-> 0]
MapHas(m, k) == k \in DOMAIN m
MapGet(m, k, d) == IF k \in DOMAIN m THEN m[k] ELSE d
MapSet(m, k, v) == [x \in (DOMAIN m) \cup {k} |-> IF x = k THEN v ELSE m[x]]
MapDelete(m, k) == [x \in (DOMAIN m) \ {k} |-> m[x]]

RemoveAt(seq, k) == SubSeq(seq, 1, k - 1) \o SubSeq(seq, k + 1, Len(seq))

IndexOf(seq, x) ==
  IF \E i \in 1..Len(seq) : seq[i] = x THEN CHOOSE i \in 1..Len(seq) : seq[i] = x ELSE 0

\* ------------------------------------------------------------------ state
VARIABLES
  listening,                \* main(): manager.start() done, the server accepts connections
  manager,                  \* the TickerSubscriptionManager singleton's fields
  opens,                    \* the promises created by ensurePage, by <<ticker, n>>
  closes,                   \* the promises created by stopPage, by <<ticker, n>>
  browserPages,             \* the Page objects created by context.newPage(), by <<ticker, n>>:
                            \* open or closed; bound once exposeBinding has returned and
                            \* the 'close' listener is registered
  calls,                    \* the unary RPC handler activations (a bag)
  connectionSubscriptions,  \* router: connectionId -> set of tickers
  sessions,                 \* the streamPrices activations, by session number
  immediates,               \* the callbacks queued with setImmediate
  emitted,                  \* number of price updates pushed so far
  process,                  \* the Node process: running or exited (and its exit code), a
                            \* rejection no handler has taken, the activations of main's
                            \* signal handler (each in manager.shutdown(), and what it awaits)
  hist                      \* history: per ticker, the calls made so far; the opens
                            \* whose failure was thrown to the caller that started them;
                            \* the detach functions onPrice returned to a direct caller

vars == << listening, manager, opens, closes, browserPages, calls,
           connectionSubscriptions, sessions, immediates, emitted, process, hist >>

streamVars == << sessions, immediates, emitted >>

\* The part of the state the manager's methods read and write.
Heap == [ manager |-> manager, opens |-> opens, closes |-> closes,
          browserPages |-> browserPages, hist |-> hist ]

SetHeap(h) ==
  /\ manager' = h.manager
  /\ opens' = h.opens
  /\ closes' = h.closes
  /\ browserPages' = h.browserPages
  /\ hist' = h.hist

\* What an async manager call hands its caller to await.
NoId == << <<>>, 0 >>
Resolved == [on |-> "none", id |-> NoId]
OnOpen(id) == [on |-> "open", id |-> id]
OnClose(id) == [on |-> "close", id |-> id]

\* The stages in which the body of an open awaits the browser: chromium.launch
\* and browser.newContext of start(), context.newPage, page.exposeBinding, and
\* page.goto with attachPriceObserver.
BrowserStages == {"launching", "newContext", "newPage", "binding", "loading"}

\* The promise of an open is pending: its body awaits this.start() that has
\* nothing to launch (start) or the browser, or its .catch handler has run and
\* its .finally has not (failing).
OpenInFlight(o) == o.stage \in {"start", "failing"} \cup BrowserStages
CloseInFlight(c) == c.stage \in {"closing", "closed"}

Bump(m, k) == [m EXCEPT ![k] = @ + 1]

\* The objects of a heap that belong to a ticker, and the name of its next one.
Of(heap, ticker) == { id \in DOMAIN heap : id[1] = ticker }
NewId(heap, ticker) == << ticker, Cardinality(Of(heap, ticker)) + 1 >>

\* ------------------------------------------------------------------ process
\* The process has not exited.
Alive == process.pc # "exited"

\* A new task of the event loop (a request, a client action, a timer, a signal,
\* a setImmediate callback, a message from the browser) starts only when the
\* promise jobs of the task before it have run: no open is between the await of a
\* start() that had nothing to launch and its throw, or between the await of its
\* .catch handler and its .finally; and no rejection waits for Node to end the
\* process, which it does when the promise jobs have run.
TaskBoundary ==
  /\ Alive
  /\ ~process.unhandled
  /\ \A id \in DOMAIN opens : opens[id].stage \notin {"start", "failing"}

\* Clients can call the server: it listens, or a signal handler has called
\* server.close(), which refuses new connections and leaves the open ones.
Serving == listening \/ process.handlers # <<>>

\* ------------------------------------------------------------------ manager
\* this.refCounts.get(ticker) ?? 0
RefCount(m, ticker) == MapGet(m.refCounts, ticker, 0)

\* subscribe: if (current === 0)
NeedsOpen(current) == current = 0

\* Variant for sensitivity analysis: the last-reference test off by one
IsLastRefLoose(current) == current <= 2

\* unsubscribe: if (current <= 1)
IsLastRef(current) == current <= 1

\* catch: Math.max(0, (this.refCounts.get(ticker) ?? 1) - 1)
RolledBack(refCounts, ticker) == Max(0, MapGet(refCounts, ticker, 1) - 1)

\* this.pages is a Map: its keys keep the order in which they were set (pageKeys),
\* and the iterator of the loop of the i-th shutdown() has passed the first
\* iters[i] of them.
\* this.pages.set(ticker, page): a key the Map already has keeps its place
PagesSet(m, ticker, page) ==
  [m EXCEPT !.pages = MapSet(@, ticker, page),
            !.pageKeys = IF MapHas(m.pages, ticker) THEN @ ELSE Append(@, ticker)]

\* this.pages.delete(ticker): an iteration under way skips nothing and repeats nothing
PagesDelete(m, ticker) ==
  LET k == IndexOf(m.pageKeys, ticker) IN
  IF k = 0 THEN m
  ELSE [m EXCEPT !.pages = MapDelete(@, ticker),
                 !.pageKeys = RemoveAt(@, k),
                 !.iters = [i \in DOMAIN @ |-> IF k <= @[i] THEN @[i] - 1 ELSE @[i]]]

\* page.isClosed()
IsClosed(h, page) == h.browserPages[page].state = "closed"

\* ensurePage, past its two early returns: the async body starts and is suspended
\* in this.start(), which launches when this.browser is null (launching) and
\* otherwise returns at once, the body then throwing for want of a context
\* (start), or in context.newPage(); this.starting.set(ticker, p)
startPage(h, ticker) ==
  LET id == NewId(h.opens, ticker)
      stage == IF ~h.manager.browser THEN "launching"
               ELSE IF ~h.manager.context THEN "start" ELSE "newPage"
  IN [ h |-> [h EXCEPT
                !.opens = MapSet(@, id, [ticker |-> ticker, stage |-> stage, page |-> NoId]),
                !.manager.starting = MapSet(@, ticker, id)],
       wait |-> OnOpen(id) ]

ensurePage(h, ticker) ==
  IF MapHas(h.manager.pages, ticker) THEN [h |-> h, wait |-> Resolved]
  ELSE IF MapHas(h.manager.starting, ticker)
  THEN [h |-> h, wait |-> OnOpen(h.manager.starting[ticker])]
  ELSE startPage(h, ticker)

\* Variant for sensitivity analysis: stopPage without the look-up in this.closing
stopPageUnshared(h, ticker) ==
  IF ~MapHas(h.manager.pages, ticker) THEN [h |-> h, wait |-> Resolved]
  ELSE LET id == NewId(h.closes, ticker)
           page == h.manager.pages[ticker]
       IN [ h |-> [h EXCEPT
                     !.closes = MapSet(@, id, [ticker |-> ticker, page |-> page, stage |-> "closing", called |-> TRUE]),
                     !.manager.closing = MapSet(@, ticker, id)],
            wait |-> OnClose(id) ]

stopPage(h, ticker) ==
  IF ~MapHas(h.manager.pages, ticker) THEN [h |-> h, wait |-> Resolved]
  ELSE IF MapHas(h.manager.closing, ticker)
  THEN [h |-> h, wait |-> OnClose(h.manager.closing[ticker])]
  ELSE LET id == NewId(h.closes, ticker)
           page == h.manager.pages[ticker]
       IN IF ~IsClosed(h, page)
          THEN \* await page.close(): the body is suspended, closing.set(ticker, p)
               [ h |-> [h EXCEPT
                         !.closes = MapSet(@, id, [ticker |-> ticker, page |-> page, stage |-> "closing", called |-> TRUE]),
                         !.manager.closing = MapSet(@, ticker, id)],
                 wait |-> OnClose(id) ]
          ELSE \* nothing to await: pages.delete runs at once, finally clears closing
               [ h |-> [h EXCEPT
                         !.closes = MapSet(@, id, [ticker |-> ticker, page |-> page, stage |-> "done", called |-> FALSE]),
                         !.manager = PagesDelete(@, ticker)],
                 wait |-> OnClose(id) ]

\* Variant for sensitivity analysis: subscribe that opens a page on every call: no reference-count test,
\* no look-up in this.pages or this.starting
subscribeOpensEachTime(h, tickerRaw) ==
  LET ticker == Normalize(tickerRaw)
      current == RefCount(h.manager, ticker)
      h1 == [h EXCEPT !.manager.refCounts = MapSet(@, ticker, current + 1),
                      !.hist.acquires = Bump(@, ticker),
                      !.hist.running = Bump(@, ticker)]
  IN startPage(h1, ticker)

subscribe(h, tickerRaw) ==
  LET ticker == Normalize(tickerRaw)
      current == RefCount(h.manager, ticker)
      h1 == [h EXCEPT !.manager.refCounts = MapSet(@, ticker, current + 1),
                      !.hist.acquires = Bump(@, ticker),
                      !.hist.running = Bump(@, ticker)]
  IN IF NeedsOpen(current) THEN ensurePage(h1, ticker) ELSE [h |-> h1, wait |-> Resolved]

unsubscribe(h, tickerRaw) ==
  LET ticker == Normalize(tickerRaw)
      current == RefCount(h.manager, ticker)
      h0 == [h EXCEPT !.hist.releases = Bump(@, ticker),
                      !.hist.running = [@ EXCEPT ![ticker] = Max(0, @ - 1)],
                      !.hist.drops = IF current = 1 THEN Bump(@, ticker) ELSE @]
  IN IF IsLastRef(current)
     THEN stopPage([h0 EXCEPT !.manager.refCounts = MapDelete(@, ticker)], ticker)
     ELSE [ h |-> [h0 EXCEPT !.manager.refCounts = MapSet(@, ticker, current - 1)],
            wait |-> Resolved ]

\* ------------------------------------------------------------------ awaiting
\* The promise an invocation awaits has settled.
WaitSettled(w) ==
  CASE w.on = "none" -> TRUE
    [] w.on = "open" -> ~OpenInFlight(opens[w.id])
    [] w.on = "close" -> ~CloseInFlight(closes[w.id])

\* It settled by rejecting (only an open can reject; stopPage swallows errors).
WaitRejected(w) == w.on = "open" /\ opens[w.id].stage = "rejected"

\* An open is in flight for the ticker (the promise kept in manager.starting).
OpenFor(h, ticker) == MapGet(h.manager.starting, ticker, NoId)

\* ------------------------------------------------------------------ emitter
\* private topicKey(ticker)
topicKey(ticker) == << "price-update:" >> \o ticker

\* emitter.on(key, handler)
EmitterOn(listeners, key, handler) ==
  MapSet(listeners, key, Append(MapGet(listeners, key, <<>>), handler))

\* emitter.off(key, handler): the most recently added instance of the handler goes
EmitterOff(listeners, key, handler) ==
  LET l == MapGet(listeners, key, <<>>)
      at == { i \in 1..Len(l) : l[i] = handler }
  IN IF at = {} THEN listeners
     ELSE LET k == CHOOSE i \in at : \A j \in at : j <= i
              rest == SubSeq(l, 1, k - 1) \o SubSeq(l, k + 1, Len(l))
          IN IF rest = <<>> THEN MapDelete(listeners, key) ELSE MapSet(listeners, key, rest)

\* Variant for sensitivity analysis: onPrice that queues the replay twice.
onPriceReplaysTwice(m, imm, ticker, handler) ==
  [ manager |-> [m EXCEPT !.listeners = EmitterOn(@, topicKey(ticker), handler)],
    immediates |-> IF MapHas(m.lastPrices, ticker)
                   THEN imm \o << [handler |-> handler, update |-> m.lastPrices[ticker]],
                                  [handler |-> handler, update |-> m.lastPrices[ticker]] >>
                   ELSE imm ]

\* onPrice(ticker, handler): registers the handler and, if a price is cached for
\* the ticker, queues one call of the handler with it
onPrice(m, imm, ticker, handler) ==
  [ manager |-> [m EXCEPT !.listeners = EmitterOn(@, topicKey(ticker), handler)],
    immediates |-> IF MapHas(m.lastPrices, ticker)
                   THEN Append(imm, [handler |-> handler, update |-> m.lastPrices[ticker]])
                   ELSE imm ]

\* ------------------------------------------------------------------ sessions
Sessions == {1, 2}

\* The tickerRaw of the actions the stream clients send
StreamTickers == { <<"B">>, <<" ", "b">>, <<" ">> }

NoMsg == [ticker |-> <<>>, price |-> <<>>, timestamp |-> 0]

IdleTask == [pc |-> "idle", ticker |-> <<>>, wait |-> Resolved]

\* A streamPrices or watchPrices activation (kind): the generator (gen), the return() request it has
\* not taken yet (cancel), its locals, the actions task, the finally block's
\* place in offMap (visited) and await (twait), the closures it has made (regs),
\* the messages it has yielded (out). History: the updates its closures were
\* called with (got), those onUpdate let through (in), and per ticker the
\* references it has taken from the manager and not given back (held), and per
\* ticker the number of updates emitted when its UNSUBSCRIBE detached the listener
\* (unsubAt, Never while the ticker has not been unsubscribed since its last attach).
\* watchPrices has streamClosed and its setInterval timer (polling) in addition.
ZeroCounts == [t \in Tickers |-> 0]

Never == -1

NoSession ==
  [ kind |-> "none", streamClosed |-> FALSE, polling |-> FALSE,
    gen |-> "none", cancel |-> FALSE,
    subscribed |-> {}, offMap |-> <<>>, pending |-> <<>>, resolveNext |-> FALSE,
    next |-> NoMsg, task |-> [IdleTask EXCEPT !.pc = "none"],
    visited |-> 0, twait |-> Resolved, regs |-> 0, out |-> <<>>,
    got |-> <<>>, in |-> <<>>, held |-> ZeroCounts, unsubAt |-> [t \in Tickers |-> Never] ]

\* ------------------------------------------------------------------ Init
Init ==
  /\ listening = FALSE
  /\ manager = [ browser |-> FALSE, context |-> FALSE,
                 refCounts |-> EmptyMap, pages |-> EmptyMap, pageKeys |-> <<>>, iters |-> <<>>,
                 starting |-> EmptyMap, closing |-> EmptyMap,
                 lastPrices |-> EmptyMap, listeners |-> EmptyMap ]
  /\ sessions = [s \in Sessions |-> NoSession]
  /\ immediates = <<>>
  /\ emitted = 0
  /\ opens = EmptyMap
  /\ closes = EmptyMap
  /\ browserPages = EmptyMap
  /\ calls = EmptyBag
  /\ connectionSubscriptions = EmptyMap
  /\ process = [pc |-> "running", code |-> 0, unhandled |-> FALSE, handlers |-> <<>>]
  /\ hist = [ acquires |-> ZeroCounts, releases |-> ZeroCounts, running |-> ZeroCounts,
              drops |-> ZeroCounts, errored |-> {}, offs |-> <<>>, shutdowns |-> 0 ]

\* ------------------------------------------------------------------ main()
\* await manager.start(): the browser and its context are launched; then
\* server.listen(...), and the signal handlers are registered. Or chromium.launch
\* (noBrowser) or browser.newContext (noContext) rejects, or server.listen throws
\* or the server emits 'error' (noListen: a bad PORT, an address in use): the
\* process ends with exit code 1 and has never listened.
Main ==
  \E outcome \in {"started", "noBrowser", "noContext", "noListen"} :
    /\ TaskBoundary
    /\ process.handlers = <<>>
    /\ ~listening
    /\ listening' = (outcome = "started")
    /\ manager' = [manager EXCEPT !.browser = (outcome # "noBrowser"),
                                  !.context = (outcome \in {"started", "noListen"})]
    /\ process' = IF outcome = "started" THEN process
                  ELSE [process EXCEPT !.pc = "exited", !.code = 1]
    /\ UNCHANGED << opens, closes, browserPages, calls, connectionSubscriptions, hist >>
    /\ UNCHANGED streamVars

\* ------------------------------------------------------------------ open
\* start() of an open that found this.browser null: chromium.launch() resolves,
\* this.browser is set and browser.newContext() is awaited
LaunchDone(id) ==
  /\ TaskBoundary
  /\ opens[id].stage = "launching"
  /\ manager' = [manager EXCEPT !.browser = TRUE]
  /\ opens' = [opens EXCEPT ![id].stage = "newContext"]
  /\ UNCHANGED << listening, process, closes, browserPages, calls, connectionSubscriptions, hist >>
  /\ UNCHANGED streamVars

\* browser.newContext() resolves: this.context is set, start() returns and the
\* body awaits context.newPage()
ContextDone(id) ==
  /\ TaskBoundary
  /\ opens[id].stage = "newContext"
  /\ manager' = [manager EXCEPT !.context = TRUE]
  /\ opens' = [opens EXCEPT ![id].stage = "newPage"]
  /\ UNCHANGED << listening, process, closes, browserPages, calls, connectionSubscriptions, hist >>
  /\ UNCHANGED streamVars

\* await this.context.newPage() returns a page; page.exposeBinding is awaited
NewPageDone(id) ==
  /\ TaskBoundary
  /\ opens[id].stage = "newPage"
  /\ LET page == NewId(browserPages, opens[id].ticker) IN
       /\ browserPages' = MapSet(browserPages, page,
                                 [ticker |-> opens[id].ticker, state |-> "open", bound |-> FALSE])
       /\ opens' = [opens EXCEPT ![id].stage = "binding", ![id].page = page]
  /\ UNCHANGED << listening, process, manager, closes, calls, connectionSubscriptions, hist >>
  /\ UNCHANGED streamVars

\* await page.exposeBinding('pushPriceUpdate', ...) returns: page.on('close', ...)
\* is registered and page.goto is awaited
BindingDone(id) ==
  /\ TaskBoundary
  /\ opens[id].stage = "binding"
  /\ browserPages[opens[id].page].state = "open"
  /\ browserPages' = [browserPages EXCEPT ![opens[id].page].bound = TRUE]
  /\ opens' = [opens EXCEPT ![id].stage = "loading"]
  /\ UNCHANGED << listening, process, manager, closes, calls, connectionSubscriptions, hist >>
  /\ UNCHANGED streamVars

\* goto and attachPriceObserver are done: this.pages.set(ticker, page),
\* then .finally: this.starting.delete(ticker)
OpenDone(id) ==
  /\ TaskBoundary
  /\ opens[id].stage = "loading"
  /\ browserPages[opens[id].page].state = "open"
  /\ manager' = [PagesSet(manager, opens[id].ticker, opens[id].page) EXCEPT
                   !.starting = MapDelete(@, opens[id].ticker)]
  /\ opens' = [opens EXCEPT ![id].stage = "fulfilled"]
  /\ UNCHANGED << listening, process, closes, browserPages, calls, connectionSubscriptions, hist >>
  /\ UNCHANGED streamVars

\* The body throws, for want of a context after start() (a promise job) or
\* because launch, newContext, newPage, exposeBinding, goto or
\* attachPriceObserver fails: the .catch handler rolls the count back and calls close() on the page registered for the
\* ticker, if there is one, and awaits it
OpenFail(id) ==
  LET ticker == opens[id].ticker IN
  /\ \/ Alive /\ opens[id].stage = "start"
     \/ TaskBoundary /\ opens[id].stage \in BrowserStages
  /\ manager' = [manager EXCEPT
                   !.refCounts = MapSet(@, ticker, RolledBack(manager.refCounts, ticker))]
  /\ browserPages' =
       IF MapHas(manager.pages, ticker)
       THEN [browserPages EXCEPT ![manager.pages[ticker]].state = "closed"]
       ELSE browserPages
  /\ opens' = [opens EXCEPT ![id].stage = "failing"]
  /\ UNCHANGED << listening, process, closes, calls, connectionSubscriptions, hist >>
  /\ UNCHANGED streamVars

\* The .catch handler goes on after its await: this.pages.delete(ticker) and the
\* rethrow, then .finally: this.starting.delete(ticker); the promise rejects.
OpenFailed(id) ==
  LET ticker == opens[id].ticker IN
  /\ Alive
  /\ opens[id].stage = "failing"
  /\ manager' = [PagesDelete(manager, ticker) EXCEPT !.starting = MapDelete(@, ticker)]
  /\ opens' = [opens EXCEPT ![id].stage = "rejected"]
  /\ UNCHANGED << listening, process, closes, browserPages, calls,
                  connectionSubscriptions, hist >>
  /\ UNCHANGED streamVars

\* ------------------------------------------------------------------ close
\* The page closes: isClosed() becomes true and page.on('close') runs
\* this.pages.delete(ticker) with the ticker of the open that made the page.
PageCloseEvent(c) ==
  /\ TaskBoundary
  /\ closes[c].stage = "closing"
  /\ browserPages' = [browserPages EXCEPT ![closes[c].page].state = "closed"]
  /\ manager' = PagesDelete(manager, browserPages[closes[c].page].ticker)
  /\ closes' = [closes EXCEPT ![c].stage = "closed"]
  /\ UNCHANGED << listening, process, opens, calls, connectionSubscriptions, hist >>
  /\ UNCHANGED streamVars

\* await page.close() returns: this.pages.delete(ticker); finally closing.delete(ticker)
StopPageDone(c) ==
  /\ TaskBoundary
  /\ closes[c].stage = "closed"
  /\ manager' = [PagesDelete(manager, closes[c].ticker) EXCEPT
                   !.closing = MapDelete(@, closes[c].ticker)]
  /\ closes' = [closes EXCEPT ![c].stage = "done"]
  /\ UNCHANGED << listening, process, opens, browserPages, calls, connectionSubscriptions, hist >>
  /\ UNCHANGED streamVars

\* Variant for sensitivity analysis: page.close() rejects and nothing catches it:
\* the body stops before pages.delete, finally clears closing, the promise rejects.
StopPageCloseFailedThrows(c) ==
  /\ TaskBoundary
  /\ closes[c].stage = "closing"
  /\ manager' = [manager EXCEPT !.closing = MapDelete(@, closes[c].ticker)]
  /\ closes' = [closes EXCEPT ![c].stage = "rejected"]
  /\ UNCHANGED << listening, process, opens, browserPages, calls, connectionSubscriptions, hist >>
  /\ UNCHANGED streamVars

\* page.close() rejects: .catch(() => {}) swallows it and the body goes on as above;
\* the page itself stays open.
StopPageCloseFailed(c) ==
  /\ TaskBoundary
  /\ closes[c].stage = "closing"
  /\ manager' = [PagesDelete(manager, closes[c].ticker) EXCEPT
                   !.closing = MapDelete(@, closes[c].ticker)]
  /\ closes' = [closes EXCEPT ![c].stage = "done"]
  /\ UNCHANGED << listening, process, opens, browserPages, calls, connectionSubscriptions, hist >>
  /\ UNCHANGED streamVars

\* ------------------------------------------------------------------ calls
\* Number of manager calls made so far: subscribe, unsubscribe, and shutdown.
RECURSIVE SumOver(_, _)
SumOver(f, S) ==
  IF S = {} THEN 0 ELSE LET x == CHOOSE y \in S : TRUE IN f[x] + SumOver(f, S \ {x})

CallsMade ==
  SumOver(hist.acquires, Tickers) + SumOver(hist.releases, Tickers) + hist.shutdowns

\* ------------------------------------------------------------------ shutdown
\* manager.shutdown() of the i-th activation of the signal handler, from the entry
\* of this.pages its loop is at to its next await: stopPage of the next ticker, or,
\* after the loop, pages.clear() (the entries set later are still to come for the
\* loops under way), refCounts.clear() and context.close(), or browser.close()
\* when this.context is null, or its return.
shutdown(h, i) ==
  IF h.manager.iters[i] < Len(h.manager.pageKeys)
  THEN LET ticker == h.manager.pageKeys[h.manager.iters[i] + 1]
           r == stopPage([h EXCEPT !.manager.iters[i] = @ + 1], ticker)
       IN [ h |-> r.h, handler |-> [pc |-> "stopping", wait |-> r.wait] ]
  ELSE [ h |-> [h EXCEPT !.manager.pages = EmptyMap, !.manager.pageKeys = <<>>,
                         !.manager.iters = [j \in DOMAIN @ |-> 0],
                         !.manager.refCounts = EmptyMap],
         handler |-> [pc |-> IF h.manager.context THEN "closing"
                             ELSE IF h.manager.browser THEN "closed" ELSE "returned",
                      wait |-> Resolved] ]

\* The i-th activation of the signal handler is where `handler` says; when its
\* manager.shutdown() has returned it calls process.exit(0).
HandlerAt(p, i, handler) ==
  [p EXCEPT !.handlers = IF i > Len(@) THEN Append(@, handler) ELSE [@ EXCEPT ![i] = handler],
            !.pc = IF handler.pc = "returned" THEN "exited" ELSE @,
            !.code = IF handler.pc = "returned" THEN 0 ELSE @]

\* SIGINT or SIGTERM, at any time after main(): server.close(), then
\* manager.shutdown() up to its first await
Shutdown ==
  LET i == Len(process.handlers) + 1
      r == shutdown([Heap EXCEPT !.manager.iters = Append(@, 0)], i)
  IN
  /\ TaskBoundary
  /\ Serving
  /\ CallsMade < MaxCalls
  /\ listening' = FALSE
  /\ SetHeap([r.h EXCEPT !.hist.shutdowns = @ + 1])
  /\ process' = HandlerAt(process, i, r.handler)
  /\ UNCHANGED << calls, connectionSubscriptions, streamVars >>

\* The stopPage that a shutdown() awaits has settled: its loop goes on.
ShutdownResume(i) ==
  LET r == shutdown(Heap, i) IN
  /\ Alive
  /\ process.handlers[i].pc = "stopping"
  /\ WaitSettled(process.handlers[i].wait)
  /\ SetHeap(r.h)
  /\ process' = HandlerAt(process, i, r.handler)
  /\ UNCHANGED << listening, calls, connectionSubscriptions, streamVars >>

\* context.close() or browser.close() has been called.
CloseCalled == \E i \in DOMAIN process.handlers : process.handlers[i].pc \in {"closing", "closed"}

\* A page of the context that is being closed goes away: isClosed() becomes
\* true, the 'close' listener, if the open that made the page got as far as
\* registering it, runs this.pages.delete(ticker) with the ticker of that open,
\* and a page.close() that was waiting gets its answer.
PageGone(page) ==
  /\ TaskBoundary
  /\ CloseCalled
  /\ browserPages[page].state = "open"
  /\ browserPages' = [browserPages EXCEPT ![page].state = "closed"]
  /\ manager' = IF browserPages[page].bound
                THEN PagesDelete(manager, browserPages[page].ticker) ELSE manager
  /\ closes' = [c \in DOMAIN closes |->
                  IF closes[c].page = page /\ closes[c].stage = "closing"
                  THEN [closes[c] EXCEPT !.stage = "closed"] ELSE closes[c]]
  /\ UNCHANGED << listening, process, opens, calls, connectionSubscriptions, hist, streamVars >>

\* The context.close() a shutdown() awaits settles, resolved or rejected
\* (.catch(() => {}) swallows the rejection): this.context = null, then
\* browser.close() if this.browser is set.
ContextCloseSettled(i) ==
  /\ TaskBoundary
  /\ process.handlers[i].pc = "closing"
  /\ manager' = [manager EXCEPT !.context = FALSE]
  /\ process' = HandlerAt(process, i, [pc |-> IF manager.browser THEN "closed" ELSE "returned",
                                       wait |-> Resolved])
  /\ UNCHANGED << listening, opens, closes, browserPages, calls, connectionSubscriptions,
                  hist, streamVars >>

\* The browser.close() a shutdown() awaits settles: this.browser = null,
\* shutdown() returns and main's handler calls process.exit(0).
BrowserCloseSettled(i) ==
  /\ TaskBoundary
  /\ process.handlers[i].pc = "closed"
  /\ manager' = [manager EXCEPT !.browser = FALSE]
  /\ process' = HandlerAt(process, i, [pc |-> "returned", wait |-> Resolved])
  /\ UNCHANGED << listening, opens, closes, browserPages, calls, connectionSubscriptions,
                  hist, streamVars >>

\* ------------------------------------------------------------------ unary RPCs
Range(s) == { s[i] : i \in 1..Len(s) }

\* Index of the next entry of req.tickers, from i on, that is not blank after
\* trim() (the handlers skip the others), or Len(tickers) + 1.
RECURSIVE NextTicker(_, _)
NextTicker(tickers, i) ==
  IF i > Len(tickers) THEN i
  ELSE IF Normalize(tickers[i]) # <<>> THEN i
  ELSE NextTicker(tickers, i + 1)

\* subscribe RPC, after its loop: the tickers subscribed are stored under the connection id
StoreSubscriptions(cs, tickers, subscribed) ==
  LET connectionId == Join(tickers)
      cs1 == IF MapHas(cs, connectionId) THEN cs ELSE MapSet(cs, connectionId, {})
  IN MapSet(cs1, connectionId, cs1[connectionId] \cup Range(subscribed))

\* unsubscribe RPC, after each manager.unsubscribe: the ticker leaves the connection's set
DropSubscription(cs, tickers, ticker) ==
  LET connectionId == Join(tickers) IN
  IF ~MapHas(cs, connectionId) THEN cs
  ELSE IF cs[connectionId] \ {ticker} = {} THEN MapDelete(cs, connectionId)
  ELSE MapSet(cs, connectionId, cs[connectionId] \ {ticker})

\* The handler runs from entry `from` of req.tickers to its next await, or to its end.
\* `active` are the other activations, `done` the tickers already handled.
UnaryRun(kind, tickers, done, from, cs, active) ==
  LET j == NextTicker(tickers, from) IN
  IF j > Len(tickers)
  THEN /\ calls' = active
       /\ connectionSubscriptions' =
            IF kind = "subscribe" THEN StoreSubscriptions(cs, tickers, done) ELSE cs
       /\ UNCHANGED << manager, opens, closes, browserPages, hist >>
  ELSE LET ticker == Normalize(tickers[j])
           r == IF kind = "subscribe" THEN subscribe(Heap, ticker) ELSE unsubscribe(Heap, ticker)
       IN /\ CallsMade < MaxCalls
          /\ SetHeap(r.h)
          /\ calls' = active (+) SetToBag({ [ kind |-> kind, tickers |-> tickers, i |-> j,
                                              done |-> done, wait |-> r.wait,
                                              before |-> RefCount(manager, ticker),
                                              sawOpen |-> OpenFor(Heap, ticker),
                                              started |-> DOMAIN r.h.opens # DOMAIN opens ] })
          /\ connectionSubscriptions' = cs

\* A client calls the unary subscribe or unsubscribe RPC.
UnaryCall(kind, tickers) ==
  /\ TaskBoundary
  /\ Serving
  /\ UnaryRun(kind, tickers, <<>>, 1, connectionSubscriptions, calls)
  /\ UNCHANGED << listening, process, streamVars >>

\* The manager call a handler awaits has settled: the handler throws if it rejected,
\* and otherwise goes on with the rest of its loop.
UnaryResume(c) ==
  /\ Alive
  /\ WaitSettled(c.wait)
  /\ IF WaitRejected(c.wait)
     THEN /\ calls' = calls (-) SetToBag({c})
          /\ hist' = [hist EXCEPT !.errored = IF c.started THEN @ \cup {c.wait.id} ELSE @]
          /\ UNCHANGED << manager, opens, closes, browserPages, connectionSubscriptions >>
     ELSE LET ticker == Normalize(c.tickers[c.i]) IN
          UnaryRun(c.kind, c.tickers, Append(c.done, ticker), c.i + 1,
                   IF c.kind = "unsubscribe"
                   THEN DropSubscription(connectionSubscriptions, c.tickers, ticker)
                   ELSE connectionSubscriptions,
                   calls (-) SetToBag({c}))
  /\ UNCHANGED << listening, process, streamVars >>

\* ------------------------------------------------------------------ streamPrices
\* String(update.price), for a whole number
Digit(d) ==
  CASE d = 0 -> "0" [] d = 1 -> "1" [] d = 2 -> "2" [] d = 3 -> "3" [] d = 4 -> "4"
    [] d = 5 -> "5" [] d = 6 -> "6" [] d = 7 -> "7" [] d = 8 -> "8" [] d = 9 -> "9"

RECURSIVE String(_)
String(n) == IF n < 10 THEN << Digit(n) >> ELSE String(n \div 10) \o << Digit(n % 10) >>

\* Variant for sensitivity analysis: onUpdate that puts the message at the head
\* of the queue
onUpdateUnshift(sess, update) ==
  IF update.ticker \notin sess.subscribed THEN [sess EXCEPT !.got = Append(@, update)]
  ELSE LET msg == [ ticker |-> update.ticker, price |-> String(update.price),
                    timestamp |-> update.ts ]
           seen == [sess EXCEPT !.got = Append(@, update), !.in = Append(@, msg)]
       IN IF sess.resolveNext
          THEN [seen EXCEPT !.resolveNext = FALSE, !.next = msg, !.gen = "resumed"]
          ELSE [seen EXCEPT !.pending = << msg >> \o @]

\* Variant for sensitivity analysis: onUpdate that gives up when no pull is waiting
onUpdateOnlyToWaiter(sess, update) ==
  IF update.ticker \notin sess.subscribed THEN [sess EXCEPT !.got = Append(@, update)]
  ELSE LET msg == [ ticker |-> update.ticker, price |-> String(update.price),
                    timestamp |-> update.ts ]
           seen == [sess EXCEPT !.got = Append(@, update), !.in = Append(@, msg)]
       IN IF sess.resolveNext
          THEN [seen EXCEPT !.resolveNext = FALSE, !.next = msg, !.gen = "resumed"]
          ELSE seen

\* Variant for sensitivity analysis: onUpdate whose queue keeps only the latest
\* message.
onUpdateKeepsLatest(sess, update) ==
  IF update.ticker \notin sess.subscribed THEN [sess EXCEPT !.got = Append(@, update)]
  ELSE LET msg == [ ticker |-> update.ticker, price |-> String(update.price),
                    timestamp |-> update.ts ]
           seen == [sess EXCEPT !.got = Append(@, update), !.in = Append(@, msg)]
       IN IF sess.resolveNext
          THEN [seen EXCEPT !.resolveNext = FALSE, !.next = msg, !.gen = "resumed"]
          ELSE [seen EXCEPT !.pending = << msg >>]

\* onUpdate of a streamPrices activation: the update is dropped, handed to the
\* waiting pull, or queued
onUpdate(sess, update) ==
  IF update.ticker \notin sess.subscribed THEN [sess EXCEPT !.got = Append(@, update)]
  ELSE LET msg == [ ticker |-> update.ticker, price |-> String(update.price),
                    timestamp |-> update.ts ]
           seen == [sess EXCEPT !.got = Append(@, update), !.in = Append(@, msg)]
       IN IF sess.resolveNext
          THEN [seen EXCEPT !.resolveNext = FALSE, !.next = msg, !.gen = "resumed"]
          ELSE [seen EXCEPT !.pending = Append(@, msg)]

\* onUpdate of a watchPrices activation: the update is handed to the waiting pull
\* or queued
watchOnUpdate(sess, update) ==
  LET msg == [ ticker |-> update.ticker, price |-> String(update.price),
               timestamp |-> update.ts ]
      seen == [sess EXCEPT !.got = Append(@, update), !.in = Append(@, msg)]
  IN IF sess.resolveNext
     THEN [seen EXCEPT !.resolveNext = FALSE, !.next = msg, !.gen = "resumed"]
     ELSE [seen EXCEPT !.pending = Append(@, msg)]

\* A registered handler <<s, n>> is the n-th closure (u) => onUpdate(u) of the
\* streamPrices session s, or the onUpdate of the watchPrices session s.
Invoke(handler, update, ss) ==
  [ss EXCEPT ![handler[1]] = IF @.kind = "watch" THEN watchOnUpdate(@, update)
                             ELSE onUpdate(@, update)]

\* Variant for sensitivity analysis: emit that stops after the first handler.
EmitFirstOnly(handlers, update, ss) ==
  IF handlers = <<>> THEN ss ELSE Invoke(Head(handlers), update, ss)

\* this.emitter.emit(key, update): the handlers registered for the key, in order
RECURSIVE Emit(_, _, _)
Emit(handlers, update, ss) ==
  IF handlers = <<>> THEN ss
  ELSE Emit(Tail(handlers), update, Invoke(Head(handlers), update, ss))

\* offMap is a Map: set() keeps the place of a key it already has
OffMapSet(offMap, entry) ==
  IF \E i \in 1..Len(offMap) : offMap[i].ticker = entry.ticker
  THEN [i \in 1..Len(offMap) |-> IF offMap[i].ticker = entry.ticker THEN entry ELSE offMap[i]]
  ELSE Append(offMap, entry)

OffMapIndex(offMap, ticker) ==
  IF \E i \in 1..Len(offMap) : offMap[i].ticker = ticker
  THEN CHOOSE i \in 1..Len(offMap) : offMap[i].ticker = ticker
  ELSE 0

\* Variant for sensitivity analysis: offMap.delete(ticker) without calling off(),
\* so that the listener stays on the emitter.
DetachTickerKeepsListener(sess, listeners, ticker) ==
  LET k == OffMapIndex(sess.offMap, ticker) IN
  IF k = 0 THEN [sess |-> sess, listeners |-> listeners]
  ELSE [ sess |-> [sess EXCEPT !.offMap = RemoveAt(@, k),
                               !.visited = IF k <= @ THEN @ - 1 ELSE @],
         listeners |-> listeners ]

\* offMap.get(ticker)?.(); offMap.delete(ticker), on the session and the emitter;
\* an iteration of offMap under way skips nothing and repeats nothing
DetachTicker(sess, listeners, ticker) ==
  LET k == OffMapIndex(sess.offMap, ticker) IN
  IF k = 0 THEN [sess |-> sess, listeners |-> listeners]
  ELSE [ sess |-> [sess EXCEPT !.offMap = RemoveAt(@, k),
                               !.visited = IF k <= @ THEN @ - 1 ELSE @],
         listeners |-> EmitterOff(listeners, sess.offMap[k].key, sess.offMap[k].handler) ]

\* The finally block of streamPrices, from the entry of offMap its loop is at to
\* its next await, or to its end.
Teardown(h, sess) ==
  IF sess.visited < Len(sess.offMap)
  THEN LET e == sess.offMap[sess.visited + 1]
           h1 == [h EXCEPT !.manager.listeners = EmitterOff(@, e.key, e.handler)]
           r == unsubscribe(h1, e.ticker)
       IN [ h |-> r.h,
            sess |-> [sess EXCEPT !.gen = "finally", !.visited = @ + 1, !.twait = r.wait,
                                  !.held[e.ticker] = @ - 1] ]
  ELSE [ h |-> h,
         sess |-> [sess EXCEPT !.gen = "done", !.offMap = <<>>, !.subscribed = {},
                               !.visited = 0, !.twait = Resolved] ]

\* A client opens the stream and the transport pulls: the body runs to its first
\* await; the actions task waits for the first action, the pull finds the queue empty.
StreamStart(s) ==
  /\ TaskBoundary
  /\ Serving
  /\ sessions[s].gen = "none"
  /\ \A r \in Sessions : r < s => sessions[r].gen # "none"
  /\ sessions' = [sessions EXCEPT ![s] =
                    [NoSession EXCEPT !.kind = "stream", !.gen = "waiting", !.resolveNext = TRUE,
                                      !.task.pc = "idle"]]
  /\ UNCHANGED << listening, process, manager, opens, closes, browserPages, calls,
                  connectionSubscriptions, immediates, emitted, hist >>

ClientConnected(sess) ==
  sess.kind = "stream" /\ sess.gen \in {"waiting", "resumed", "yielded"} /\ ~sess.cancel

\* Variant for sensitivity analysis: an actions task without the subscribed.has
\* tests.
ClientActionUnguarded(s, action, tickerRaw) ==
  LET sess == sessions[s]
      ticker == Normalize(tickerRaw)
  IN
  /\ TaskBoundary
  /\ ClientConnected(sess)
  /\ sess.task.pc = "idle"
  /\ IF ticker # <<>> /\ action = "SUBSCRIBE"
     THEN LET r == subscribe(Heap, ticker) IN
          /\ CallsMade < MaxCalls
          /\ SetHeap(r.h)
          /\ sessions' = [sessions EXCEPT
                            ![s].task = [pc |-> "subscribing", ticker |-> ticker, wait |-> r.wait],
                            ![s].held[ticker] = @ + 1]
     ELSE IF ticker # <<>> /\ action = "UNSUBSCRIBE"
     THEN LET d == DetachTicker(sess, manager.listeners, ticker)
              r == unsubscribe([Heap EXCEPT !.manager.listeners = d.listeners], ticker)
          IN /\ CallsMade < MaxCalls
             /\ SetHeap(r.h)
             /\ sessions' = [sessions EXCEPT ![s] =
                               [d.sess EXCEPT
                                  !.task = [pc |-> "unsubscribing", ticker |-> ticker, wait |-> r.wait],
                                  !.held[ticker] = @ - 1,
                                  !.unsubAt[ticker] = emitted]]
     ELSE UNCHANGED << manager, opens, closes, browserPages, hist, sessions >>
  /\ UNCHANGED << listening, process, calls, connectionSubscriptions, immediates, emitted >>

\* The actions task receives a client action and runs to its next await.
ClientAction(s, action, tickerRaw) ==
  LET sess == sessions[s]
      ticker == Normalize(tickerRaw)
  IN
  /\ TaskBoundary
  /\ ClientConnected(sess)
  /\ sess.task.pc = "idle"
  /\ IF ticker # <<>> /\ action = "SUBSCRIBE" /\ ticker \notin sess.subscribed
     THEN LET r == subscribe(Heap, ticker) IN
          /\ CallsMade < MaxCalls
          /\ SetHeap(r.h)
          /\ sessions' = [sessions EXCEPT
                            ![s].task = [pc |-> "subscribing", ticker |-> ticker, wait |-> r.wait],
                            ![s].held[ticker] = @ + 1]
     ELSE IF ticker # <<>> /\ action = "UNSUBSCRIBE" /\ ticker \in sess.subscribed
     THEN LET d == DetachTicker(sess, manager.listeners, ticker)
              r == unsubscribe([Heap EXCEPT !.manager.listeners = d.listeners], ticker)
          IN /\ CallsMade < MaxCalls
             /\ SetHeap(r.h)
             /\ sessions' = [sessions EXCEPT ![s] =
                               [d.sess EXCEPT
                                  !.task = [pc |-> "unsubscribing", ticker |-> ticker, wait |-> r.wait],
                                  !.held[ticker] = @ - 1,
                                  !.unsubAt[ticker] = emitted]]
     ELSE UNCHANGED << manager, opens, closes, browserPages, hist, sessions >>
  /\ UNCHANGED << listening, process, calls, connectionSubscriptions, immediates, emitted >>

\* The manager call the actions task awaits has settled. A rejection ends the task
\* and nothing awaits or catches the task's promise: the rejection is unhandled (no
\* unhandledRejection listener is installed) and Node ends the process when the
\* promise jobs of the task have run. Otherwise
\* SUBSCRIBE attaches the listener and records the ticker, UNSUBSCRIBE forgets the
\* ticker.
ActionResume(s) ==
  LET sess == sessions[s]
      ticker == sess.task.ticker
  IN
  /\ Alive
  /\ sess.task.pc \in {"subscribing", "unsubscribing"}
  /\ WaitSettled(sess.task.wait)
  /\ IF WaitRejected(sess.task.wait)
     THEN /\ sessions' = [sessions EXCEPT
                            ![s].task = [IdleTask EXCEPT !.pc = "crashed"],
                            ![s].held[ticker] = IF sess.task.pc = "subscribing" THEN @ - 1 ELSE @]
          /\ process' = [process EXCEPT !.unhandled = TRUE]
          /\ UNCHANGED << manager, immediates >>
     ELSE IF sess.task.pc = "subscribing"
     THEN LET handler == << s, sess.regs + 1 >>
              r == onPrice(manager, immediates, ticker, handler)
          IN /\ manager' = r.manager
             /\ immediates' = r.immediates
             /\ sessions' = [sessions EXCEPT ![s] =
                  [sess EXCEPT !.offMap = OffMapSet(@, [ticker |-> ticker, key |-> topicKey(ticker),
                                                        handler |-> handler]),
                               !.subscribed = @ \cup {ticker},
                               !.regs = @ + 1,
                               !.unsubAt[ticker] = Never,
                               !.task = IdleTask]]
             /\ UNCHANGED process
     ELSE /\ sessions' = [sessions EXCEPT ![s] =
                 [sess EXCEPT !.subscribed = @ \ {ticker}, !.task = IdleTask]]
          /\ UNCHANGED << manager, immediates, process >>
  /\ UNCHANGED << listening, opens, closes, browserPages, calls,
                  connectionSubscriptions, emitted, hist >>

\* The client ends its action stream: the for await loop of the actions task ends.
ClientEnd(s) ==
  /\ TaskBoundary
  /\ ClientConnected(sessions[s])
  /\ sessions[s].task.pc = "idle"
  /\ sessions' = [sessions EXCEPT ![s].task.pc = "ended"]
  /\ UNCHANGED << listening, process, manager, opens, closes, browserPages, calls,
                  connectionSubscriptions, immediates, emitted, hist >>

\* The stream is cancelled: the transport calls return() on the generator. A
\* generator suspended at its yield runs its finally block now; one that is
\* running (awaiting its pull) takes the request when it next yields.
Cancel(s) ==
  LET sess == sessions[s] IN
  /\ TaskBoundary
  /\ ClientConnected(sess)
  /\ IF sess.gen = "yielded"
     THEN LET r == Teardown(Heap, sess) IN
          /\ SetHeap(r.h)
          /\ sessions' = [sessions EXCEPT ![s] = [r.sess EXCEPT !.cancel = TRUE]]
     ELSE /\ sessions' = [sessions EXCEPT ![s].cancel = TRUE]
          /\ UNCHANGED << manager, opens, closes, browserPages, hist >>
  /\ UNCHANGED << listening, process, calls, connectionSubscriptions, immediates, emitted >>

\* The pull that was handed an update returns it and the generator yields it; a
\* return() request that was waiting is taken at this yield.
GenYield(s) ==
  LET sess == sessions[s]
      yielded == [sess EXCEPT !.gen = "yielded", !.out = Append(@, sess.next), !.next = NoMsg]
  IN
  /\ Alive
  /\ sess.kind = "stream"
  /\ sess.gen = "resumed"
  /\ IF sess.cancel
     THEN LET r == Teardown(Heap, yielded) IN
          /\ SetHeap(r.h)
          /\ sessions' = [sessions EXCEPT ![s] = r.sess]
     ELSE /\ sessions' = [sessions EXCEPT ![s] = yielded]
          /\ UNCHANGED << manager, opens, closes, browserPages, hist >>
  /\ UNCHANGED << listening, process, calls, connectionSubscriptions, immediates, emitted >>

\* Variant for sensitivity analysis: a tryDequeue that waits without looking at
\* the queue.
TransportNextWaitsFirst(s) ==
  LET sess == sessions[s] IN
  /\ Alive
  /\ sess.kind = "stream"
  /\ sess.gen = "yielded"
  /\ ~sess.cancel
  /\ sessions' = [sessions EXCEPT ![s] = [sess EXCEPT !.resolveNext = TRUE, !.gen = "waiting"]]
  /\ UNCHANGED << listening, process, manager, opens, closes, browserPages, calls,
                  connectionSubscriptions, immediates, emitted, hist >>

\* The transport asks for the next message: tryDequeue returns the oldest queued
\* one, which is yielded, or leaves its resolver in resolveNext and waits.
TransportNext(s) ==
  LET sess == sessions[s] IN
  /\ Alive
  /\ sess.kind = "stream"
  /\ sess.gen = "yielded"
  /\ ~sess.cancel
  /\ sessions' = [sessions EXCEPT ![s] =
       IF sess.pending # <<>>
       THEN [sess EXCEPT !.pending = Tail(@), !.out = Append(@, Head(sess.pending))]
       ELSE [sess EXCEPT !.resolveNext = TRUE, !.gen = "waiting"]]
  /\ UNCHANGED << listening, process, manager, opens, closes, browserPages, calls,
                  connectionSubscriptions, immediates, emitted, hist >>

\* The manager.unsubscribe the finally block awaits has settled: its loop goes on.
TeardownResume(s) ==
  LET sess == sessions[s]
      r == Teardown(Heap, sess)
  IN
  /\ Alive
  /\ sess.gen = "finally"
  /\ WaitSettled(sess.twait)
  /\ SetHeap(r.h)
  /\ sessions' = [sessions EXCEPT ![s] = r.sess]
  /\ UNCHANGED << listening, process, calls, connectionSubscriptions, immediates, emitted >>

\* ------------------------------------------------------------------ watchPrices
\* getActiveTickers(): Array.from(this.pages.keys()), in the Map's order
getActiveTickers(m) == m.pageKeys

\* The one onUpdate function a watchPrices session registers for every ticker
WatchHandler(s) == << s, 1 >>

\* subscribeToTicker(ticker), on [sess, manager, immediates]
subscribeToTicker(st, s, ticker) ==
  IF ticker \in st.sess.subscribed THEN st
  ELSE LET r == onPrice(st.manager, st.immediates, ticker, WatchHandler(s))
       IN [ sess |-> [st.sess EXCEPT
                        !.offMap = OffMapSet(@, [ticker |-> ticker, key |-> topicKey(ticker),
                                                 handler |-> WatchHandler(s)]),
                        !.subscribed = @ \cup {ticker}],
            manager |-> r.manager,
            immediates |-> r.immediates ]

\* for (const ticker of tickers) subscribeToTicker(ticker)
RECURSIVE SubscribeEach(_, _, _)
SubscribeEach(st, s, tickers) ==
  IF tickers = <<>> THEN st
  ELSE SubscribeEach(subscribeToTicker(st, s, Head(tickers)), s, Tail(tickers))

\* Variant for sensitivity analysis: a clean-up loop that detaches nothing.
DropEachKeeps(st, tickers) == st

\* The clean-up loop of the timer callback: the tickers that are no longer active
\* are detached and forgotten.
RECURSIVE DropEach(_, _)
DropEach(st, tickers) ==
  IF tickers = {} THEN st
  ELSE LET t == CHOOSE x \in tickers : TRUE
           d == DetachTicker(st.sess, st.manager.listeners, t)
       IN DropEach([ st EXCEPT !.sess = [d.sess EXCEPT !.subscribed = @ \ {t}],
                               !.manager.listeners = d.listeners ],
                   tickers \ {t})

\* The finally block of watchPrices
watchFinally(st) ==
  LET all == DropEach(st, { e.ticker : e \in Range(st.sess.offMap) })
  IN [ all EXCEPT !.sess = [@ EXCEPT !.streamClosed = TRUE, !.polling = FALSE,
                                     !.offMap = <<>>, !.subscribed = {}, !.gen = "done"] ]

\* A client opens a watchPrices stream and the transport pulls: the body attaches
\* to the active tickers, starts the timer and waits in tryDequeue.
WatchStart(s) ==
  LET st == SubscribeEach(
              [ sess |-> [NoSession EXCEPT !.kind = "watch", !.regs = 1],
                manager |-> manager, immediates |-> immediates ],
              s, getActiveTickers(manager))
  IN
  /\ TaskBoundary
  /\ Serving
  /\ sessions[s].gen = "none"
  /\ sessions' = [sessions EXCEPT ![s] =
                    [st.sess EXCEPT !.polling = TRUE, !.resolveNext = TRUE, !.gen = "waiting"]]
  /\ manager' = st.manager
  /\ immediates' = st.immediates
  /\ UNCHANGED << listening, process, opens, closes, browserPages, calls,
                  connectionSubscriptions, emitted, hist >>

\* The timer callback (every 100 ms): attach to the tickers that became active,
\* detach from those that are no longer active.
checkInterval(s) ==
  LET currentTickers == getActiveTickers(manager)
      st0 == [ sess |-> sessions[s], manager |-> manager, immediates |-> immediates ]
      st1 == SubscribeEach(st0, s, currentTickers)
  IN DropEach(st1, st1.sess.subscribed \ Range(currentTickers))

\* The timer fires while the stream is open.
WatchPoll(s) ==
  LET st2 == checkInterval(s) IN
  /\ TaskBoundary
  /\ sessions[s].kind = "watch"
  /\ sessions[s].polling
  /\ sessions' = [sessions EXCEPT ![s] = st2.sess]
  /\ manager' = st2.manager
  /\ immediates' = st2.immediates
  /\ UNCHANGED << listening, process, opens, closes, browserPages, calls,
                  connectionSubscriptions, emitted, hist >>

\* The pull that was handed an update returns it and the generator yields it; a
\* return() request that was waiting is taken at this yield and runs the finally block.
WatchYield(s) ==
  LET sess == sessions[s]
      yielded == [sess EXCEPT !.gen = "yielded", !.out = Append(@, sess.next), !.next = NoMsg]
      fin == watchFinally([sess |-> yielded, manager |-> manager, immediates |-> immediates])
  IN
  /\ Alive
  /\ sess.kind = "watch"
  /\ sess.gen = "resumed"
  /\ IF sess.cancel
     THEN sessions' = [sessions EXCEPT ![s] = fin.sess] /\ manager' = fin.manager
     ELSE sessions' = [sessions EXCEPT ![s] = yielded] /\ UNCHANGED manager
  /\ UNCHANGED << listening, process, opens, closes, browserPages, calls,
                  connectionSubscriptions, immediates, emitted, hist >>

\* The transport asks for the next message: while (!streamClosed) tryDequeue
\* returns the oldest queued message, which is yielded, or waits.
WatchNext(s) ==
  LET sess == sessions[s] IN
  /\ Alive
  /\ sess.kind = "watch"
  /\ sess.gen = "yielded"
  /\ ~sess.cancel
  /\ sessions' = [sessions EXCEPT ![s] =
       IF sess.pending # <<>>
       THEN [sess EXCEPT !.pending = Tail(@), !.out = Append(@, Head(sess.pending))]
       ELSE [sess EXCEPT !.resolveNext = TRUE, !.gen = "waiting"]]
  /\ UNCHANGED << listening, process, manager, opens, closes, browserPages, calls,
                  connectionSubscriptions, immediates, emitted, hist >>

\* The stream is cancelled: return() on the generator. At its yield the finally
\* block runs now; while it awaits its pull the request waits.
WatchCancel(s) ==
  LET sess == sessions[s]
      fin == watchFinally([sess |-> [sess EXCEPT !.cancel = TRUE],
                           manager |-> manager, immediates |-> immediates])
  IN
  /\ TaskBoundary
  /\ sess.kind = "watch"
  /\ sess.gen \in {"waiting", "resumed", "yielded"}
  /\ ~sess.cancel
  /\ IF sess.gen = "yielded"
     THEN sessions' = [sessions EXCEPT ![s] = fin.sess] /\ manager' = fin.manager
     ELSE sessions' = [sessions EXCEPT ![s].cancel = TRUE] /\ UNCHANGED manager
  /\ UNCHANGED << listening, process, opens, closes, browserPages, calls,
                  connectionSubscriptions, immediates, emitted, hist >>

\* ------------------------------------------------------------------ prices
\* Variant for sensitivity analysis: a binding that caches only the first update
\* of a ticker.
pushPriceUpdateKeepsFirst(page, finite) ==
  LET ticker == browserPages[page].ticker
      update == [ticker |-> ticker, price |-> 10 + emitted, ts |-> emitted + 1]
  IN
  /\ TaskBoundary
  /\ browserPages[page].state = "open"
  /\ browserPages[page].bound
  /\ IF finite
     THEN /\ manager' = [manager EXCEPT !.lastPrices =
                           IF MapHas(@, ticker) THEN @ ELSE MapSet(@, ticker, update)]
          /\ sessions' = Emit(MapGet(manager.listeners, topicKey(ticker), <<>>), update, sessions)
          /\ emitted' = emitted + 1
     ELSE UNCHANGED << manager, sessions, emitted >>
  /\ UNCHANGED << listening, process, opens, closes, browserPages, calls,
                  connectionSubscriptions, immediates, hist >>

\* The page calls the pushPriceUpdate binding. A price that is not finite is
\* ignored; otherwise the update is cached and emitted to the ticker's listeners.
pushPriceUpdate(page, finite) ==
  LET ticker == browserPages[page].ticker
      update == [ticker |-> ticker, price |-> 10 + emitted, ts |-> emitted + 1]
  IN
  /\ TaskBoundary
  /\ browserPages[page].state = "open"
  /\ browserPages[page].bound
  /\ IF finite
     THEN /\ manager' = [manager EXCEPT !.lastPrices = MapSet(@, ticker, update)]
          /\ sessions' = Emit(MapGet(manager.listeners, topicKey(ticker), <<>>), update, sessions)
          /\ emitted' = emitted + 1
     ELSE UNCHANGED << manager, sessions, emitted >>
  /\ UNCHANGED << listening, process, opens, closes, browserPages, calls,
                  connectionSubscriptions, immediates, hist >>

\* A push within the number of pushes explored.
PushPriceUpdate(page, finite) == emitted < MaxEmits /\ pushPriceUpdate(page, finite)

\* A callback queued by onPrice with setImmediate runs: handler(lastPrice)
RunImmediate ==
  /\ TaskBoundary
  /\ immediates # <<>>
  /\ sessions' = Invoke(Head(immediates).handler, Head(immediates).update, sessions)
  /\ immediates' = Tail(immediates)
  /\ UNCHANGED << listening, process, manager, opens, closes, browserPages, calls,
                  connectionSubscriptions, emitted, hist >>

\* ------------------------------------------------------------------ exit
\* A promise job is still to run: the continuation of an await whose promise has
\* settled, a generator that was handed an update and has not yielded it, or a
\* step of an open that awaits nothing outside the process.
JobsReady ==
  \/ \E id \in DOMAIN opens : opens[id].stage \in {"start", "failing"}
  \/ \E c \in BagToSet(calls) : WaitSettled(c.wait)
  \/ \E s \in Sessions :
        \/ sessions[s].task.pc \in {"subscribing", "unsubscribing"} /\ WaitSettled(sessions[s].task.wait)
        \/ sessions[s].gen = "finally" /\ WaitSettled(sessions[s].twait)
        \/ sessions[s].gen = "resumed"
  \/ \E i \in DOMAIN process.handlers :
        process.handlers[i].pc = "stopping" /\ WaitSettled(process.handlers[i].wait)

\* The promise jobs have run and a rejection was left without a handler: Node
\* prints the error and ends the process with exit code 1.
UnhandledRejection ==
  /\ Alive
  /\ process.unhandled
  /\ ~JobsReady
  /\ process' = [process EXCEPT !.pc = "exited", !.code = 1]
  /\ UNCHANGED << listening, manager, opens, closes, browserPages, calls,
                  connectionSubscriptions, hist, streamVars >>

\* ------------------------------------------------------------------ Spec
Next ==
  \/ Main
  \/ \E kind \in {"subscribe", "unsubscribe"}, tickers \in Requests : UnaryCall(kind, tickers)
  \/ \E c \in BagToSet(calls) : UnaryResume(c)
  \/ \E id \in DOMAIN opens : NewPageDone(id)
  \/ \E id \in DOMAIN opens : BindingDone(id)
  \/ \E id \in DOMAIN opens : OpenDone(id)
  \/ \E id \in DOMAIN opens : OpenFail(id)
  \/ \E id \in DOMAIN opens : OpenFailed(id)
  \/ \E c \in DOMAIN closes : PageCloseEvent(c)
  \/ \E c \in DOMAIN closes : StopPageDone(c)
  \/ \E c \in DOMAIN closes : StopPageCloseFailed(c)
  \/ Shutdown
  \/ \E i \in DOMAIN process.handlers : ShutdownResume(i)
  \/ \E page \in DOMAIN browserPages : PageGone(page)
  \/ \E i \in DOMAIN process.handlers : ContextCloseSettled(i)
  \/ \E i \in DOMAIN process.handlers : BrowserCloseSettled(i)

Spec == Init /\ [][Next]_vars

\* The unary RPCs of a process that receives no signal.
NextCalls ==
  \/ Main
  \/ \E kind \in {"subscribe", "unsubscribe"}, tickers \in Requests : UnaryCall(kind, tickers)
  \/ \E c \in BagToSet(calls) : UnaryResume(c)
  \/ \E id \in DOMAIN opens : NewPageDone(id)
  \/ \E id \in DOMAIN opens : BindingDone(id)
  \/ \E id \in DOMAIN opens : OpenDone(id)
  \/ \E id \in DOMAIN opens : OpenFail(id)
  \/ \E id \in DOMAIN opens : OpenFailed(id)
  \/ \E c \in DOMAIN closes : PageCloseEvent(c)
  \/ \E c \in DOMAIN closes : StopPageDone(c)
  \/ \E c \in DOMAIN closes : StopPageCloseFailed(c)

CallSpec == Init /\ [][NextCalls]_vars

\* req.tickers of unary requests that all name one symbol.
SymbolRequests == { << <<"B">> >>, << <<" ", "b">> >> }

\* The unary RPCs on one symbol, and the signals.
NextSymbol ==
  \/ Main
  \/ \E kind \in {"subscribe", "unsubscribe"}, tickers \in SymbolRequests :
       UnaryCall(kind, tickers)
  \/ \E c \in BagToSet(calls) : UnaryResume(c)
  \/ \E id \in DOMAIN opens : NewPageDone(id)
  \/ \E id \in DOMAIN opens : BindingDone(id)
  \/ \E id \in DOMAIN opens : OpenDone(id)
  \/ \E id \in DOMAIN opens : OpenFail(id)
  \/ \E id \in DOMAIN opens : OpenFailed(id)
  \/ \E c \in DOMAIN closes : PageCloseEvent(c)
  \/ \E c \in DOMAIN closes : StopPageDone(c)
  \/ \E c \in DOMAIN closes : StopPageCloseFailed(c)
  \/ Shutdown
  \/ \E i \in DOMAIN process.handlers : ShutdownResume(i)
  \/ \E page \in DOMAIN browserPages : PageGone(page)
  \/ \E i \in DOMAIN process.handlers : ContextCloseSettled(i)
  \/ \E i \in DOMAIN process.handlers : BrowserCloseSettled(i)

SymbolSpec == Init /\ [][NextSymbol]_vars

\* The registry driven by streamPrices sessions, and the prices the pages push.
NextStream ==
  \/ Main
  \/ \E id \in DOMAIN opens : NewPageDone(id)
  \/ \E id \in DOMAIN opens : BindingDone(id)
  \/ \E id \in DOMAIN opens : OpenDone(id)
  \/ \E id \in DOMAIN opens : OpenFail(id)
  \/ \E id \in DOMAIN opens : OpenFailed(id)
  \/ \E c \in DOMAIN closes : PageCloseEvent(c)
  \/ \E c \in DOMAIN closes : StopPageDone(c)
  \/ \E c \in DOMAIN closes : StopPageCloseFailed(c)
  \/ \E s \in Sessions : StreamStart(s)
  \/ \E s \in Sessions, action \in {"SUBSCRIBE", "UNSUBSCRIBE"}, tickerRaw \in StreamTickers :
       ClientAction(s, action, tickerRaw)
  \/ \E s \in Sessions : ActionResume(s)
  \/ \E s \in Sessions : ClientEnd(s)
  \/ \E s \in Sessions : Cancel(s)
  \/ \E s \in Sessions : GenYield(s)
  \/ \E s \in Sessions : TransportNext(s)
  \/ \E s \in Sessions : TeardownResume(s)
  \/ \E page \in DOMAIN browserPages, finite \in BOOLEAN : PushPriceUpdate(page, finite)
  \/ RunImmediate
  \/ UnhandledRejection

StreamSpec == Init /\ [][NextStream]_vars

\* The same, with the progress the event loop and the browser give: a continuation
\* that can run does run, an open or a close that was started ends. Nothing makes
\* a client send an action or cancel, or a page push a price.
StreamLive ==
  /\ StreamSpec
  /\ WF_vars(\E s \in Sessions : ActionResume(s))
  /\ WF_vars(\E s \in Sessions : GenYield(s))
  /\ WF_vars(\E s \in Sessions : TeardownResume(s))
  /\ WF_vars(RunImmediate)
  /\ WF_vars(\E id \in DOMAIN opens : NewPageDone(id))
  /\ WF_vars(\E id \in DOMAIN opens : BindingDone(id))
  /\ WF_vars(\E id \in DOMAIN opens : OpenDone(id) \/ OpenFail(id))
  /\ WF_vars(\E id \in DOMAIN opens : OpenFailed(id))
  /\ WF_vars(\E c \in DOMAIN closes : StopPageDone(c) \/ StopPageCloseFailed(c))
  /\ WF_vars(UnhandledRejection)

\* Delivery alone: streamPrices sessions that subscribe to B and E and never
\* unsubscribe or end, pages that open and push prices, consumers that pull.
BridgeSubscribe(s, tickerRaw) == CallsMade < MaxSubs /\ ClientAction(s, "SUBSCRIBE", tickerRaw)

BridgePush(page) == emitted < MaxPushes /\ pushPriceUpdate(page, TRUE)

NextBridge ==
  \/ Main
  \/ \E s \in Sessions : StreamStart(s)
  \/ \E s \in Sessions, tickerRaw \in { <<"B">>, <<"E">> } : BridgeSubscribe(s, tickerRaw)
  \/ \E s \in Sessions : ActionResume(s)
  \/ \E id \in DOMAIN opens : NewPageDone(id)
  \/ \E id \in DOMAIN opens : BindingDone(id)
  \/ \E id \in DOMAIN opens : OpenDone(id)
  \/ \E page \in DOMAIN browserPages : BridgePush(page)
  \/ RunImmediate
  \/ \E s \in Sessions : GenYield(s)
  \/ \E s \in Sessions : TransportNext(s)

BridgeSpec == Init /\ [][NextBridge]_vars

\* One such session whose consumer keeps pulling, with the progress the event
\* loop and the browser give: a continuation that can run does run, an open that
\* was started ends, a consumer that was handed a message asks for the next.
PullSessions == {1}

NextPull ==
  \/ Main
  \/ \E s \in PullSessions : StreamStart(s)
  \/ \E s \in PullSessions, tickerRaw \in { <<"B">>, <<"E">> } : BridgeSubscribe(s, tickerRaw)
  \/ \E s \in PullSessions : ActionResume(s)
  \/ \E id \in DOMAIN opens : NewPageDone(id)
  \/ \E id \in DOMAIN opens : BindingDone(id)
  \/ \E id \in DOMAIN opens : OpenDone(id)
  \/ \E page \in DOMAIN browserPages : BridgePush(page)
  \/ RunImmediate
  \/ \E s \in PullSessions : GenYield(s)
  \/ \E s \in PullSessions : TransportNext(s)

PullSpec == Init /\ [][NextPull]_vars

PullLive ==
  /\ PullSpec
  /\ WF_vars(\E s \in PullSessions : ActionResume(s))
  /\ WF_vars(\E s \in PullSessions : GenYield(s))
  /\ WF_vars(\E s \in PullSessions : TransportNext(s))
  /\ WF_vars(RunImmediate)
  /\ WF_vars(\E id \in DOMAIN opens : NewPageDone(id))
  /\ WF_vars(\E id \in DOMAIN opens : BindingDone(id))
  /\ WF_vars(\E id \in DOMAIN opens : OpenDone(id))

\* The registry driven by the unary RPCs, with a watchPrices session that follows
\* the active tickers.
WatchSessions == {1}

WatchUnaryCall(kind, tickers) == CallsMade < MaxWatchCalls /\ UnaryCall(kind, tickers)

NextWatch ==
  \/ Main
  \/ \E kind \in {"subscribe", "unsubscribe"}, tickers \in Requests : WatchUnaryCall(kind, tickers)
  \/ \E c \in BagToSet(calls) : UnaryResume(c)
  \/ \E id \in DOMAIN opens : NewPageDone(id)
  \/ \E id \in DOMAIN opens : BindingDone(id)
  \/ \E id \in DOMAIN opens : OpenDone(id)
  \/ \E id \in DOMAIN opens : OpenFail(id)
  \/ \E id \in DOMAIN opens : OpenFailed(id)
  \/ \E c \in DOMAIN closes : PageCloseEvent(c)
  \/ \E c \in DOMAIN closes : StopPageDone(c)
  \/ \E c \in DOMAIN closes : StopPageCloseFailed(c)
  \/ \E s \in WatchSessions : WatchStart(s)
  \/ \E s \in WatchSessions : WatchPoll(s)
  \/ \E s \in WatchSessions : WatchYield(s)
  \/ \E s \in WatchSessions : WatchNext(s)
  \/ \E s \in WatchSessions : WatchCancel(s)
  \/ \E page \in DOMAIN browserPages, finite \in BOOLEAN : PushPriceUpdate(page, finite)
  \/ RunImmediate

WatchSpec == Init /\ [][NextWatch]_vars

\* The same, with the progress the event loop, the timer and the browser give.
WatchLive ==
  /\ WatchSpec
  /\ WF_vars(\E c \in BagToSet(calls) : UnaryResume(c))
  /\ WF_vars(\E s \in WatchSessions : WatchPoll(s))
  /\ WF_vars(\E s \in WatchSessions : WatchYield(s))
  /\ WF_vars(RunImmediate)
  /\ WF_vars(\E id \in DOMAIN opens : NewPageDone(id))
  /\ WF_vars(\E id \in DOMAIN opens : BindingDone(id))
  /\ WF_vars(\E id \in DOMAIN opens : OpenDone(id) \/ OpenFail(id))
  /\ WF_vars(\E id \in DOMAIN opens : OpenFailed(id))
  /\ WF_vars(\E c \in DOMAIN closes : StopPageDone(c) \/ StopPageCloseFailed(c))

\* The discovery poll alone: the registry driven by the unary RPCs, and a
\* watchPrices session whose timer fires and whose listeners are called, with a
\* consumer that pulls and never cancels.
NextPoll ==
  \/ Main
  \/ \E kind \in {"subscribe", "unsubscribe"}, tickers \in Requests : WatchUnaryCall(kind, tickers)
  \/ \E c \in BagToSet(calls) : UnaryResume(c)
  \/ \E id \in DOMAIN opens : NewPageDone(id)
  \/ \E id \in DOMAIN opens : BindingDone(id)
  \/ \E id \in DOMAIN opens : OpenDone(id)
  \/ \E id \in DOMAIN opens : OpenFail(id)
  \/ \E id \in DOMAIN opens : OpenFailed(id)
  \/ \E c \in DOMAIN closes : PageCloseEvent(c)
  \/ \E c \in DOMAIN closes : StopPageDone(c)
  \/ \E c \in DOMAIN closes : StopPageCloseFailed(c)
  \/ \E s \in WatchSessions : WatchStart(s)
  \/ \E s \in WatchSessions : WatchPoll(s)
  \/ \E s \in WatchSessions : WatchYield(s)
  \/ \E s \in WatchSessions : WatchNext(s)
  \/ \E page \in DOMAIN browserPages : PushPriceUpdate(page, TRUE)
  \/ RunImmediate

PollSpec == Init /\ [][NextPoll]_vars

\* The bidirectional stream's reference and listener accounting: one session
\* subscribing, unsubscribing, cancelled and torn down, next to a second session
\* that only subscribes; opens succeed or fail, pages push prices and close.
HoldSession == 1

HoldOther == 2

NextHold ==
  \/ Main
  \/ \E id \in DOMAIN opens : NewPageDone(id)
  \/ \E id \in DOMAIN opens : BindingDone(id)
  \/ \E id \in DOMAIN opens : OpenDone(id)
  \/ \E id \in DOMAIN opens : OpenFail(id)
  \/ \E id \in DOMAIN opens : OpenFailed(id)
  \/ \E c \in DOMAIN closes : PageCloseEvent(c)
  \/ \E c \in DOMAIN closes : StopPageDone(c)
  \/ \E s \in {HoldSession, HoldOther} : StreamStart(s)
  \/ \E action \in {"SUBSCRIBE", "UNSUBSCRIBE"} : ClientAction(HoldSession, action, <<"B">>)
  \/ ClientAction(HoldOther, "SUBSCRIBE", <<" ", "b">>)
  \/ \E s \in {HoldSession, HoldOther} : ActionResume(s)
  \/ Cancel(HoldSession)
  \/ \E s \in {HoldSession, HoldOther} : GenYield(s)
  \/ \E s \in {HoldSession, HoldOther} : TransportNext(s)
  \/ TeardownResume(HoldSession)
  \/ \E page \in DOMAIN browserPages : PushPriceUpdate(page, TRUE)
  \/ RunImmediate
  \/ UnhandledRejection

HoldSpec == Init /\ [][NextHold]_vars

\* The two queues side by side: a streamPrices session that subscribes to B and
\* a watchPrices session that follows the active tickers, a page that opens and
\* pushes prices, consumers that pull.
QueueStream == 1
QueueWatch == 2

NextQueue ==
  \/ Main
  \/ StreamStart(QueueStream)
  \/ BridgeSubscribe(QueueStream, <<"B">>)
  \/ ActionResume(QueueStream)
  \/ \E id \in DOMAIN opens : NewPageDone(id)
  \/ \E id \in DOMAIN opens : BindingDone(id)
  \/ \E id \in DOMAIN opens : OpenDone(id)
  \/ \E page \in DOMAIN browserPages : BridgePush(page)
  \/ RunImmediate
  \/ GenYield(QueueStream)
  \/ TransportNext(QueueStream)
  \/ WatchStart(QueueWatch)
  \/ WatchPoll(QueueWatch)
  \/ WatchYield(QueueWatch)
  \/ WatchNext(QueueWatch)

QueueSpec == Init /\ [][NextQueue]_vars

\* The emitter alone: callers that attach one of two callbacks with onPrice,
\* naming the ticker as B, E or " b", keep the function it returns, and invoke
\* the functions they keep.
Callbacks == { << 1, 1 >>, << 2, 1 >> }

OnPriceTickers == { <<"B">>, <<"E">>, <<" ", "b">> }

\* const off = manager.onPrice(ticker, handler): the returned closure holds key and handler
OnPriceCall(ticker, handler) ==
  LET r == onPrice(manager, immediates, ticker, handler) IN
  /\ TaskBoundary
  /\ Len(hist.offs) < MaxRegs
  /\ manager' = r.manager
  /\ immediates' = r.immediates
  /\ hist' = [hist EXCEPT !.offs = Append(@, [ticker |-> ticker, key |-> topicKey(ticker),
                                              handler |-> handler, calls |-> 0])]
  /\ UNCHANGED << listening, process, opens, closes, browserPages, calls,
                  connectionSubscriptions, sessions, emitted >>

\* off(): () => this.emitter.off(key, handler)
OffCall(i) ==
  /\ TaskBoundary
  /\ hist.offs[i].calls < MaxOffCalls
  /\ manager' = [manager EXCEPT !.listeners = EmitterOff(@, hist.offs[i].key, hist.offs[i].handler)]
  /\ hist' = [hist EXCEPT !.offs[i].calls = @ + 1]
  /\ UNCHANGED << listening, process, opens, closes, browserPages, calls,
                  connectionSubscriptions, sessions, immediates, emitted >>

NextEmitter ==
  \/ \E ticker \in OnPriceTickers, handler \in Callbacks : OnPriceCall(ticker, handler)
  \/ \E i \in 1..Len(hist.offs) : OffCall(i)

EmitterSpec == Init /\ [][NextEmitter]_vars

\* The manager used before start(): callers of subscribe on a manager whose
\* browser is launched by the first open.
DirectTickers == { <<"B">>, <<"E">> }

\* manager.subscribe(tickerRaw) by a caller that is not an RPC handler
DirectSubscribe(tickerRaw) ==
  LET r == subscribe(Heap, tickerRaw) IN
  /\ TaskBoundary
  /\ ~Serving
  /\ CallsMade < MaxCalls
  /\ SetHeap(r.h)
  /\ UNCHANGED << listening, process, calls, connectionSubscriptions, streamVars >>

NextLazy ==
  \/ \E tickerRaw \in DirectTickers : DirectSubscribe(tickerRaw)
  \/ \E id \in DOMAIN opens : LaunchDone(id)
  \/ \E id \in DOMAIN opens : ContextDone(id)
  \/ \E id \in DOMAIN opens : NewPageDone(id)
  \/ \E id \in DOMAIN opens : BindingDone(id)
  \/ \E id \in DOMAIN opens : OpenDone(id)
  \/ \E id \in DOMAIN opens : OpenFail(id)
  \/ \E id \in DOMAIN opens : OpenFailed(id)

LazySpec == Init /\ [][NextLazy]_vars

\* ------------------------------------------------------------------ claims
OpensInFlight(t) == { id \in Of(opens, t) : OpenInFlight(opens[id]) }
ClosesInFlight(t) == { id \in Of(closes, t) : CloseInFlight(closes[id]) }

\* No open and no close of the ticker is in flight.
Settled(t) == OpensInFlight(t) = {} /\ ClosesInFlight(t) = {}

\* No open of the ticker has failed so far.
NoFailedOpen(t) == \A id \in Of(opens, t) : opens[id].stage \notin {"failing", "rejected"}

\* manager.shutdown() has not been called: the registry is driven by subscribe
\* and unsubscribe alone.
NoShutdown == hist.shutdowns = 0

\* Number of page.close() calls made for the ticker's pages.
CloseCalls(t) == Cardinality({ id \in Of(closes, t) : closes[id].called })

\* Number of handler activations awaiting the promise w.
Awaiting(w) ==
  BagCardinality([c \in { x \in BagToSet(calls) : x.wait = w } |-> calls[c]])

\* C1: once the opens and closes of a symbol have settled, the registry holds a
\* page for the symbol if and only if its refCount is positive (as long as the
\* manager is not shut down).
C1_OpenIffReferenced ==
  \A t \in Tickers :
    (NoShutdown /\ Settled(t)) => (MapHas(manager.pages, t) <=> RefCount(manager, t) > 0)

\* C2 as stated: after subscribe and unsubscribe calls alone, while every open
\* succeeds, refCount is (acquires - releases) clamped at 0, and it is never
\* negative.
C2_NetCount ==
  \A t \in Tickers :
    /\ RefCount(manager, t) >= 0
    /\ (NoShutdown /\ NoFailedOpen(t)) =>
         RefCount(manager, t) = Max(0, hist.acquires[t] - hist.releases[t])

\* C2 amended: after subscribe and unsubscribe calls alone, while every open
\* succeeds, refCount is the count that goes up by one at each acquire and down by
\* one, but not below 0, at each release; it is never negative.
C2_RunningCount ==
  \A t \in Tickers :
    /\ RefCount(manager, t) >= 0
    /\ (NoShutdown /\ NoFailedOpen(t)) => RefCount(manager, t) = hist.running[t]

\* A release at refCount 0 came before an acquire: the two counts differ.
C2_Witness ==
  \E t \in Tickers :
    /\ NoFailedOpen(t)
    /\ hist.acquires[t] >= 1 /\ hist.releases[t] >= hist.acquires[t]
    /\ hist.running[t] = 1 /\ RefCount(manager, t) = 1

\* C3: subscribe calls for a symbol that had no entry, however they overlap,
\* cause exactly one open of the symbol (while nothing was released, no open
\* failed and the manager is not shut down).
C3_SingleOpen ==
  \A t \in Tickers :
    (NoShutdown /\ hist.acquires[t] >= 1 /\ hist.releases[t] = 0 /\ NoFailedOpen(t))
      => Cardinality(Of(opens, t)) = 1

\* A second subscribe was made while the first one's open was still in flight.
C3_Witness ==
  \E c \in BagToSet(calls) :
    LET t == Normalize(c.tickers[c.i]) IN
    /\ c.kind = "subscribe" /\ c.sawOpen # NoId /\ OpenInFlight(opens[c.sawOpen])
    /\ NoShutdown /\ hist.acquires[t] = 2 /\ hist.releases[t] = 0
    /\ Cardinality(Of(opens, t)) = 1

\* C4: a subscribe call made while an open of its symbol is in flight does not
\* complete before that open has completed.
C4_AwaitsOpenInFlight ==
  \A c \in BagToSet(calls) :
    (c.kind = "subscribe" /\ c.sawOpen # NoId /\ OpenInFlight(opens[c.sawOpen]))
      => c.wait = OnOpen(c.sawOpen)

\* C5: per symbol at most one open and at most one close is in flight, and a
\* release made while a close of its symbol is in flight starts no second close.
C5_OneOpenOneClose ==
  /\ [](\A t \in Tickers :
          Cardinality(OpensInFlight(t)) <= 1 /\ Cardinality(ClosesInFlight(t)) <= 1)
  /\ [][\A t \in Tickers :
          (hist.releases'[t] > hist.releases[t] /\ ClosesInFlight(t) # {})
            => Of(closes', t) = Of(closes, t)]_vars

\* Two releases wait for the same close in flight.
C5_Witness ==
  \E id \in DOMAIN closes : CloseInFlight(closes[id]) /\ Awaiting(OnClose(id)) >= 2

\* The step in which the open started by call c fails: its .catch handler runs.
FailsNow(c) ==
  /\ c.started
  /\ opens[c.wait.id].stage \in {"start"} \cup BrowserStages
  /\ opens'[c.wait.id].stage = "failing"

\* C6: when the open started by a subscribe call fails, refCount is back at its
\* value before that call.
C6_BackToValueBefore ==
  [][\A c \in BagToSet(calls) :
       FailsNow(c) => RefCount(manager', Normalize(c.tickers[c.i])) = c.before]_vars

\* C7: no page created by an open that failed remains open.
C7_FailedOpenLeavesNoPage ==
  \A id \in DOMAIN opens :
    (opens[id].stage = "rejected" /\ opens[id].page # NoId)
      => browserPages[opens[id].page].state = "closed"

\* C8: page.close() is called when a release takes refCount from 1 to 0, once per
\* such release, and at no other time (as long as the manager is not shut down).
C8_CloseOncePerLastRelease ==
  NoShutdown => \A t \in Tickers : CloseCalls(t) = hist.drops[t]

\* C9: unsubscribe on a symbol whose refCount is 0 changes nothing: refCount stays
\* 0, no close is issued, the registered pages stay as they are.
C9_ReleaseAtZeroIsNoOp ==
  [][\A t \in Tickers :
       (hist.releases'[t] = hist.releases[t] + 1 /\ RefCount(manager, t) = 0)
         => /\ RefCount(manager', t) = 0
            /\ closes' = closes
            /\ manager'.pages = manager.pages
            /\ browserPages' = browserPages]_vars

\* A streamPrices session from its start until its finally block has finished
SessionLive(sess) == sess.gen \in {"waiting", "resumed", "yielded", "finally"}

\* The sessions that hold an active subscription to the ticker: the live stream
\* sessions that have it in `subscribed`, and the connections of the unary RPCs
\* that have it in their set.
Holders(t) ==
  Cardinality({ s \in Sessions : /\ sessions[s].kind = "stream"
                                  /\ SessionLive(sessions[s])
                                  /\ t \in sessions[s].subscribed })
    + Cardinality({ k \in DOMAIN connectionSubscriptions : t \in connectionSubscriptions[k] })

\* No unary RPC is running, no session has an action awaiting the manager, no
\* teardown is running or requested and not yet begun.
Quiescent ==
  /\ calls = EmptyBag
  /\ \A s \in Sessions :
       /\ sessions[s].task.pc \notin {"subscribing", "unsubscribing"}
       /\ sessions[s].gen # "finally"
       /\ ~(sessions[s].cancel /\ sessions[s].gen \in {"waiting", "resumed"})

\* C10: whenever no subscribe, unsubscribe or teardown is mid-flight, the refCount
\* of every symbol is the number of sessions holding a subscription to it.
C10_RefCountIsHolders ==
  Quiescent => \A t \in Tickers : RefCount(manager, t) = Holders(t)

\* The emitter keys under which a handler of session s is registered.
ListenersOf(s) ==
  { k \in DOMAIN manager.listeners :
      \E i \in 1..Len(manager.listeners[k]) : manager.listeners[k][i][1] = s }

\* The session's stream has ended: its finally block has finished and its actions
\* task has no manager call in flight.
SessionSettled(s) ==
  /\ sessions[s].gen = "done"
  /\ sessions[s].task.pc \notin {"subscribing", "unsubscribing"}

\* C11: once a session's stream has ended and its teardown and operations in flight
\* have completed, no listener of the session is attached and the session has given
\* back every reference it took.
C11_EndedSessionHoldsNothing ==
  \A s \in Sessions :
    SessionSettled(s) => /\ ListenersOf(s) = {}
                         /\ \A t \in Tickers : sessions[s].held[t] = 0

\* C12: a session whose stream is cancelled while its pull waits on an empty queue
\* is eventually torn down, even if no price is pushed any more.
C12_CancelledPullIsTornDown ==
  \A s \in Sessions :
    (sessions[s].cancel /\ sessions[s].gen = "waiting" /\ sessions[s].resolveNext)
      ~> (sessions[s].gen = "done")

IsPrefix(a, b) == Len(a) <= Len(b) /\ SubSeq(b, 1, Len(a)) = a

\* The item a pull has been handed and the generator has not yielded yet.
InHand(sess) == IF sess.gen = "resumed" THEN << sess.next >> ELSE <<>>

\* C13: on every bridge the items the pulls have returned are a prefix of the items
\* pushed, in the same order; the items pushed are exactly those returned, then the
\* one in the consumer's hand, then those queued: none is lost, none is duplicated.
C13_PullsArePrefixOfPushes ==
  \A s \in Sessions :
    /\ IsPrefix(sessions[s].out, sessions[s].in)
    /\ sessions[s].in = sessions[s].out \o InHand(sessions[s]) \o sessions[s].pending

\* Three items were pushed and three pulls have returned them.
C13_Witness ==
  \E s \in Sessions : Len(sessions[s].out) = 3 /\ sessions[s].out = sessions[s].in

\* C14: when the stream of a watchPrices session is closed while its consumer waits
\* in the pull, the consumer is woken.
C14_ClosedBridgeWakesConsumer ==
  \A s \in WatchSessions :
    (sessions[s].cancel /\ sessions[s].gen = "waiting" /\ sessions[s].resolveNext)
      ~> (sessions[s].gen # "waiting")

\* An update for the ticker, as the pushPriceUpdate binding would make it now.
UpdateNow(t) == [ticker |-> t, price |-> 10 + emitted, ts |-> emitted + 1]

\* The message onUpdate makes of an update.
MsgOf(update) ==
  [ticker |-> update.ticker, price |-> String(update.price), timestamp |-> update.ts]

\* C15: a bridge has at most one waiting consumer (resolveNext is set only while
\* the one pull waits), and a push completes in one step whatever the consumer is
\* doing: the item goes to the waiting pull, or else to the end of the queue.
C15_OneWaiterPushNeverBlocks ==
  \A s \in Sessions :
    LET sess == sessions[s] IN
    /\ sess.resolveNext => sess.gen = "waiting"
    /\ \A t \in sess.subscribed :
         LET r == onUpdate(sess, UpdateNow(t)) IN
         IF sess.resolveNext
         THEN r.next = MsgOf(UpdateNow(t)) /\ ~r.resolveNext /\ r.pending = sess.pending
         ELSE r.pending = Append(sess.pending, MsgOf(UpdateNow(t))) /\ r.gen = sess.gen

\* A push was made while the consumer was not waiting: the item is queued.
C15_Witness ==
  \E s \in Sessions :
    /\ sessions[s].kind = "stream"
    /\ sessions[s].gen \in {"resumed", "yielded", "finally"}
    /\ sessions[s].pending # <<>>

\* C16: the updates a session yields are in the order in which the pages emitted
\* them, across symbols as well as per symbol.
C16_YieldedInEmissionOrder ==
  \A s \in Sessions :
    \A i, j \in 1..Len(sessions[s].out) :
      i < j => sessions[s].out[i].timestamp <= sessions[s].out[j].timestamp

\* C17: once a streamPrices session has processed UNSUBSCRIBE for a symbol, no
\* update for the symbol emitted after that is enqueued for or yielded to the
\* session (until it attaches to the symbol again).
C17_NothingAfterUnsubscribe ==
  \A s \in Sessions : \A t \in Tickers :
    LET sess == sessions[s]
        late(msg) == msg.ticker = t /\ msg.timestamp > sess.unsubAt[t]
    IN sess.unsubAt[t] # Never =>
         /\ \A i \in 1..Len(sess.in) : ~late(sess.in[i])
         /\ \A i \in 1..Len(sess.pending) : ~late(sess.pending[i])
         /\ \A i \in 1..Len(sess.out) : ~late(sess.out[i])
         /\ ~late(sess.next)

\* A session has unsubscribed from a symbol, and while it stays connected and
\* unsubscribed the symbol's page has emitted an update that reached another
\* session.
C17_Witness ==
  \E s, r \in Sessions : \E t \in Tickers :
    /\ s # r
    /\ ClientConnected(sessions[s])
    /\ sessions[s].unsubAt[t] # Never
    /\ emitted > sessions[s].unsubAt[t]
    /\ \E i \in 1..Len(sessions[r].in) :
         sessions[r].in[i].ticker = t /\ sessions[r].in[i].timestamp > sessions[s].unsubAt[t]

\* C18: a listener attached while a value is cached for its symbol is called with
\* the cached value before it is called with any update published after the
\* attach: while the replay is still queued, the listener's session has been
\* called with nothing newer for the symbol.
C18_ReplayBeforeNewer ==
  \A i \in 1..Len(immediates) :
    LET replay == immediates[i]
        sess == sessions[replay.handler[1]]
    IN \A k \in 1..Len(sess.got) :
         sess.got[k].ticker = replay.update.ticker => sess.got[k].ts <= replay.update.ts

\* C19: onPrice calls no callback before it returns; it queues exactly one call
\* of the new callback with the cached value if the symbol has one, and queues
\* nothing if it has none. (A streamPrices session attaches in the step that
\* makes its next closure, counted by regs.)
C19_AttachStep ==
  \A s \in Sessions :
    (sessions[s].kind = "stream" /\ sessions'[s].regs = sessions[s].regs + 1) =>
      LET ticker == sessions[s].task.ticker
          handler == << s, sessions[s].regs + 1 >>
      IN /\ \A r \in Sessions : sessions'[r].got = sessions[r].got
         /\ handler \in Range(MapGet(manager'.listeners, topicKey(ticker), <<>>))
         /\ immediates' = IF MapHas(manager.lastPrices, ticker)
                          THEN Append(immediates, [handler |-> handler,
                                                   update |-> manager.lastPrices[ticker]])
                          ELSE immediates

C19_AttachNeverCallsBack == [][C19_AttachStep]_vars

\* One session attached while nothing was cached and nothing was queued for it;
\* another attached after a publish and its replay is queued, not yet run.
C19_Witness ==
  \E s, r \in Sessions :
    /\ s # r
    /\ sessions[s].regs = 1 /\ sessions[s].got # <<>>
    /\ sessions[r].regs = 1 /\ sessions[r].got = <<>>
    /\ immediates = << [handler |-> << r, 1 >>, update |-> sessions[s].got[1]] >>

\* C20: a publish for a symbol calls, once each, every callback attached to the
\* symbol at that time, and no callback attached only to another symbol: each
\* session is called with the update once per handler it has under the symbol's
\* key, and with nothing else.
Repeat(x, n) == [i \in 1..n |-> x]

C20_PublishStep ==
  emitted' = emitted + 1 =>
    \E t \in Tickers :
      /\ MapHas(manager'.lastPrices, t)
      /\ manager'.lastPrices[t].ts = emitted'
      /\ LET attached == MapGet(manager.listeners, topicKey(t), <<>>) IN
         \A s \in Sessions :
           sessions'[s].got =
             sessions[s].got \o
               Repeat(manager'.lastPrices[t],
                      Cardinality({ i \in 1..Len(attached) : attached[i][1] = s }))

C20_PublishCallsAttachedOnce == [][C20_PublishStep]_vars

\* A session attached to two symbols was called for the first, then for the
\* second, then once for the latest publish, of the first symbol again.
C20_Witness ==
  \E s \in Sessions :
    LET got == sessions[s].got IN
    /\ Len(got) = 3
    /\ got[1].ticker = got[3].ticker
    /\ got[2].ticker # got[3].ticker
    /\ got[3].ts = emitted
    /\ \A t \in {got[2].ticker, got[3].ticker} :
         \E i \in 1..Len(MapGet(manager.listeners, topicKey(t), <<>>)) :
           manager.listeners[topicKey(t)][i][1] = s

\* C21: the function onPrice returns removes exactly the registration that made
\* it, and only once: under every key a callback is registered as many times as
\* there are onPrice calls for that key and callback whose function was never
\* invoked.
Registered(key, handler) ==
  Cardinality({ i \in 1..Len(MapGet(manager.listeners, key, <<>>)) :
                  manager.listeners[key][i] = handler })

C21_DetachRemovesOwnRegistration ==
  \A t \in { <<"B">>, <<"E">> }, handler \in Callbacks :
    Registered(topicKey(t), handler) =
      Cardinality({ i \in 1..Len(hist.offs) :
                      /\ hist.offs[i].key = topicKey(t)
                      /\ hist.offs[i].handler = handler
                      /\ hist.offs[i].calls = 0 })

\* C22: the cache holds, per symbol, the update published last for it and nothing
\* for a symbol never published: it is empty at the start, a publish replaces the
\* entry of its own symbol by the update the listeners are called with and leaves
\* every other entry as it was, and no other step touches the cache.
C22_CacheStep ==
  IF emitted' = emitted + 1
  THEN \E t \in Tickers :
         /\ MapHas(manager'.lastPrices, t)
         /\ manager'.lastPrices[t].ticker = t
         /\ manager'.lastPrices[t].ts = emitted'
         /\ \A s \in Sessions :
              sessions'[s].got # sessions[s].got =>
                sessions'[s].got[Len(sessions'[s].got)] = manager'.lastPrices[t]
         /\ \A u \in Tickers \ {t} :
              /\ MapHas(manager'.lastPrices, u) = MapHas(manager.lastPrices, u)
              /\ MapHas(manager.lastPrices, u) => manager'.lastPrices[u] = manager.lastPrices[u]
  ELSE manager'.lastPrices = manager.lastPrices

C22_CacheIsLastPublished == (manager.lastPrices = EmptyMap) /\ [][C22_CacheStep]_vars

\* One symbol was published once, then the other twice: the cache has the
\* first symbol's only update and the other symbol's latest.
C22_Witness ==
  \E t, u \in Tickers :
    /\ t # u
    /\ emitted = 3
    /\ MapHas(manager.lastPrices, t) /\ manager.lastPrices[t].ts = 3
    /\ MapHas(manager.lastPrices, u) /\ manager.lastPrices[u].ts = 1

\* C23: when the open a SUBSCRIBE of a streamPrices session waits for fails, the
\* failure is reported on the session for that symbol (something reaches its
\* output: a queued or handed-over message, or the end of the stream), its
\* actions task and the process go on, and what the session holds for its other
\* symbols stays.
C23_FailedSubscribeStep ==
  \A s \in Sessions :
    LET sess == sessions[s] IN
    ( /\ sess.task.pc = "subscribing"
      /\ WaitRejected(sess.task.wait)
      /\ sessions'[s].task # sess.task ) =>
        /\ \/ sessions'[s].pending # sess.pending
           \/ sessions'[s].next # sess.next
           \/ sessions'[s].gen # sess.gen
        /\ sessions'[s].task.pc = "idle"
        /\ ~process'.unhandled
        /\ sessions'[s].offMap = sess.offMap
        /\ sessions'[s].subscribed = sess.subscribed
        /\ \A t \in Tickers \ {sess.task.ticker} : sessions'[s].held[t] = sess.held[t]

C23_FailedSubscribeIsReported == [][C23_FailedSubscribeStep]_vars

\* C24: once the client of a streamPrices session has unsubscribed what it
\* subscribed and ended its action stream, the output stream eventually ends.
C24_EndedClientEndsOutput ==
  \A s \in Sessions :
    (sessions[s].task.pc = "ended" /\ sessions[s].subscribed = {})
      ~> (sessions[s].gen = "done")

\* C25: no update is dropped. Every update published for a symbol while a
\* streamPrices session is subscribed to it is accepted by the session, and every
\* update the session has accepted is eventually yielded on its output stream
\* when the consumer keeps pulling.
C25_AcceptStep ==
  emitted' = emitted + 1 =>
    \E t \in Tickers :
      /\ MapHas(manager'.lastPrices, t) /\ manager'.lastPrices[t].ts = emitted'
      /\ \A s \in Sessions :
           t \in sessions[s].subscribed =>
             sessions'[s].in = Append(sessions[s].in, MsgOf(manager'.lastPrices[t]))

C25_NoUpdateDropped ==
  /\ [][C25_AcceptStep]_vars
  /\ \A s \in PullSessions : \A k \in 1..(MaxPushes + MaxSubs) :
       (Len(sessions[s].in) >= k)
         ~> (Len(sessions[s].out) >= k /\ sessions[s].out[k] = sessions[s].in[k])

\* A session has accepted three updates, published one after the other, and has
\* yielded all three.
C25_Witness ==
  \E s \in Sessions :
    /\ Len(sessions[s].in) = 3
    /\ sessions[s].out = sessions[s].in
    /\ sessions[s].out[1].timestamp < sessions[s].out[2].timestamp
    /\ sessions[s].out[2].timestamp < sessions[s].out[3].timestamp

\* C26: once the clients have removed a ticker (as many unary Unsubscribe calls
\* for it as Subscribe calls), a watchPrices stream eventually has no listener
\* for it, unless it is added again.
C26_RemovedTickerStopsStreaming ==
  \A s \in WatchSessions : \A t \in Tickers :
    (hist.acquires[t] >= 1 /\ hist.releases[t] >= hist.acquires[t])
      ~> (t \notin sessions[s].subscribed \/ hist.acquires[t] > hist.releases[t])

\* C27: right after a discovery poll of a watchPrices session, the symbols the
\* session has a listener for are the symbols getActiveTickers() returned at that
\* poll, with exactly one listener for each and none for any other symbol. This
\* is what the timer callback leaves from every state in which it can fire.
ListenerCount(listeners, key, handler) ==
  Cardinality({ i \in 1..Len(MapGet(listeners, key, <<>>)) : listeners[key][i] = handler })

C27_PollFollowsActiveTickers ==
  \A s \in WatchSessions :
    (sessions[s].kind = "watch" /\ sessions[s].polling) =>
      LET currentTickers == Range(getActiveTickers(manager))
          after == checkInterval(s)
      IN
      /\ after.sess.subscribed = currentTickers
      /\ { e.ticker : e \in Range(after.sess.offMap) } = currentTickers
      /\ Len(after.sess.offMap) = Cardinality(currentTickers)
      /\ \A t \in Tickers :
           ListenerCount(after.manager.listeners, topicKey(t), WatchHandler(s)) =
             IF t \in currentTickers THEN 1 ELSE 0

\* A watchPrices session whose timer runs was called with an update of a ticker
\* and, the ticker's page having gone, a poll has detached it.
C27_Witness ==
  \E s \in WatchSessions :
    /\ sessions[s].kind = "watch" /\ sessions[s].polling
    /\ sessions[s].got # <<>>
    /\ sessions[s].subscribed = {}
    /\ getActiveTickers(manager) = <<>>
    /\ \A t \in Tickers : ListenerCount(manager.listeners, topicKey(t), WatchHandler(s)) = 0

\* C28: once the teardown of a streamPrices session has begun (its finally block
\* is running or has run), no step of the session's actions task attaches a
\* listener or makes a subscribe or unsubscribe call, even when it completes an
\* action whose manager call was in flight.
C28_TeardownStep ==
  \A s \in Sessions :
    ( /\ sessions[s].kind = "stream"
      /\ sessions[s].gen \in {"finally", "done"}
      /\ sessions'[s].task # sessions[s].task ) =>
        /\ sessions'[s].regs = sessions[s].regs
        /\ sessions'[s].offMap = sessions[s].offMap
        /\ \A t \in Tickers :
             ListenerCount(manager'.listeners, topicKey(t), << s, sessions[s].regs + 1 >>) = 0
        /\ hist'.acquires = hist.acquires
        /\ hist'.releases = hist.releases

C28_TeardownStopsActions == [][C28_TeardownStep]_vars

\* C29: inputs that normalize (trim, upper case) to the same symbol are the same
\* symbol for every operation of the manager: subscribe and unsubscribe do the
\* same whichever of them they are given, and onPrice registers the listener
\* under the key of the normalized symbol, where publishes for it are emitted.
C29_OneNormalizedKey ==
  /\ \A raw1, raw2 \in RawTickers :
       Normalize(raw1) = Normalize(raw2) =>
         /\ subscribe(Heap, raw1) = subscribe(Heap, raw2)
         /\ unsubscribe(Heap, raw1) = unsubscribe(Heap, raw2)
  /\ \A i \in 1..Len(hist.offs) :
       hist.offs[i].key = topicKey(Normalize(hist.offs[i].ticker))

\* C30: a page.close() that fails is absorbed. The close operation of stopPage
\* still ends fulfilled, so that unsubscribe returns no error, and the ticker's
\* entries are removed from pages and closing when it ends.
C30_CloseFailedStep ==
  \A c \in DOMAIN closes :
    ( /\ closes[c].stage = "closing"
      /\ closes'[c].stage \notin {"closing", "closed"} ) =>
        /\ closes'[c].stage = "done"
        /\ ~MapHas(manager'.pages, closes[c].ticker)
        /\ ~MapHas(manager'.closing, closes[c].ticker)
        /\ hist' = hist

C30_CloseFailureAbsorbed == [][C30_CloseFailedStep]_vars

\* A close failed (its page is still open), stopPage has ended, the ticker is
\* out of pages, and every RPC has returned, none with an error.
C30_Witness ==
  \E c \in DOMAIN closes :
    /\ closes[c].stage = "done" /\ closes[c].called
    /\ browserPages[closes[c].page].state = "open"
    /\ ~MapHas(manager.pages, closes[c].ticker)
    /\ hist.releases[closes[c].ticker] >= 1
    /\ calls = EmptyBag
    /\ hist.errored = {}

\* C31: a symbol whose last reference was released while its open was in flight
\* does not stay open: once its opens and closes have settled (none having
\* failed), a symbol with refCount 0 has no page in the registry.
C31_ReleasedDuringOpenIsClosed ==
  \A t \in Tickers :
    (NoShutdown /\ Settled(t) /\ NoFailedOpen(t) /\ RefCount(manager, t) = 0)
      => ~MapHas(manager.pages, t)

\* C32: a subscribe made while the close of the symbol's previous page is in
\* flight ends with a page of its own: once the opens and closes of a symbol
\* whose page was closed have settled (no open having failed), a symbol with
\* refCount 1 has an open page in the registry.
C32_SubscribeDuringCloseGetsPage ==
  \A t \in Tickers :
    (NoShutdown /\ Settled(t) /\ NoFailedOpen(t) /\ CloseCalls(t) >= 1
       /\ RefCount(manager, t) = 1) =>
      /\ MapHas(manager.pages, t)
      /\ browserPages[manager.pages[t]].state = "open"

\* C33: a failed open leaves no caller holding a reference to a symbol without
\* a page: once the opens of a symbol have settled, one of them having failed and
\* nothing having been released, a symbol with no page in the registry has
\* refCount 0, and no subscribe call that overlapped the failed open has returned
\* or will return without the failure.
C33_FailedOpenLeavesNoHolder ==
  \A t \in Tickers :
    (NoShutdown /\ Settled(t) /\ ~NoFailedOpen(t) /\ hist.releases[t] = 0
       /\ ~MapHas(manager.pages, t)) =>
      /\ RefCount(manager, t) = 0
      /\ \A c \in BagToSet(calls) :
           (c.kind = "subscribe" /\ c.i <= Len(c.tickers) /\ Normalize(c.tickers[c.i]) = t)
             => WaitRejected(c.wait)

\* C34: a callback whose detach function has been invoked is not invoked again,
\* not even by the replay queued when it was attached: whenever a queued replay
\* runs, its callback is still registered under the key of the replayed symbol.
C34_ReplayStep ==
  (immediates # <<>> /\ immediates' = Tail(immediates)) =>
    ListenerCount(manager.listeners, topicKey(Head(immediates).update.ticker),
                  Head(immediates).handler) >= 1

C34_NoCallAfterDetach == [][C34_ReplayStep]_vars

\* C35: in a streamPrices or watchPrices queue a waiting consumer and queued
\* messages never coexist: resolveNext is set only while pending is empty, and
\* an update that arrives while the consumer waits goes to the consumer, clears
\* resolveNext and leaves pending as it was.
C35_WaiterOrQueue ==
  \A s \in Sessions :
    LET sess == sessions[s] IN
    sess.resolveNext =>
      /\ sess.pending = <<>>
      /\ \A t \in Tickers :
           LET after == Invoke(<< s, 1 >>, UpdateNow(t), sessions)[s] IN
           after.in # sess.in =>
             /\ ~after.resolveNext
             /\ after.pending = <<>>
             /\ after.next = MsgOf(UpdateNow(t))

\* In both kinds of session an update was handed to the waiting consumer and,
\* before the consumer ran, another one was queued.
C35_Witness ==
  \E s, w \in Sessions :
    /\ sessions[s].kind = "stream" /\ sessions[w].kind = "watch"
    /\ \A x \in {s, w} :
         /\ sessions[x].gen = "resumed"
         /\ ~sessions[x].resolveNext
         /\ sessions[x].next # NoMsg
         /\ sessions[x].pending # <<>>

\* C36: a streamPrices session holds at most one reference and at most one
\* attached listener per symbol, and never gives back more than it took: a
\* SUBSCRIBE for a symbol it holds takes nothing, an UNSUBSCRIBE for a symbol it
\* does not hold and the teardown release nothing twice. With sessions as the
\* only callers, no symbol is released more often than it was acquired.
C36_OneReferenceOneListener ==
  /\ \A s \in Sessions : \A t \in Tickers :
       /\ sessions[s].held[t] \in {0, 1}
       /\ Cardinality({ i \in 1..Len(MapGet(manager.listeners, topicKey(t), <<>>)) :
                          manager.listeners[topicKey(t)][i][1] = s }) <= 1
       /\ Cardinality({ i \in 1..Len(sessions[s].offMap) : sessions[s].offMap[i].ticker = t }) <= 1
  /\ \A t \in Tickers : hist.releases[t] <= hist.acquires[t]

\* A session that subscribed, unsubscribed and subscribed again holds one
\* reference and one listener for the symbol.
C36_Witness ==
  \E s \in Sessions : \E t \in Tickers :
    /\ sessions[s].regs = 2
    /\ t \in sessions[s].subscribed
    /\ sessions[s].held[t] = 1
    /\ ListenersOf(s) = { topicKey(t) }
    /\ hist.acquires[t] = 2 /\ hist.releases[t] = 1

====
